---- MODULE Spec2Model ----
(***************************************************************************)
(* Sistema Sentinela (clima_udi): the decision cycle of sentinela/main.py  *)
(* with the state document of state_manager.py, the six zone modules and   *)
(* the queries of database.py that the cycle depends on.                   *)
(*                                                                         *)
(* Scales.  Floats are modelled as integers: temperature, wind, rain and   *)
(* pressure in tenths of their unit (19.0 C is 190, 1005 hPa is 10050),    *)
(* humidity in percent, radiation in kJ/m2, time in hours since an epoch   *)
(* that falls on a local midnight.                                         *)
(*                                                                         *)
(* Python None is the empty tuple; a present value v is the 1-tuple <<v>>. *)
(***************************************************************************)
EXTENDS Integers, Sequences, FiniteSets, TLC

None == <<>>
Some(v) == <<v>>
Val(o) == o[1]
Abs(x) == IF x < 0 THEN -x ELSE x

(***************************************************************************)
(* Bounds of the model                                                     *)
(***************************************************************************)
\* last hour at which an invocation may start
MaxAgora == 26
\* hours that may pass between two invocations of main()
Passos == {24}

(***************************************************************************)
(* Program constants                                                       *)
(***************************************************************************)
HorasPorDia == 24
CONFORTO_FRIO == 190
CONFORTO_FRESCO == 210
CONFORTO_IDEAL == 240
CONFORTO_MORNO == 270
CONFORTO_QUENTE == 300
CONFORTO_MUITO_QUENTE == 330
TEMP_BAIXA == 180
MUDANCA_BRUSCA_LIMITE == 50
UMID_MUITO_SECA == 30
UMID_SECA == 40
UMID_BOA == 50
UMID_OTIMA == 70
UMID_ALTA == 85
UMID_CRITICA == 20
VENTO_CALMO == 3
VENTO_ARAGEM == 15
VENTO_BRISA_LEVE == 33
VENTO_BRISA_MODERADA == 54
VENTO_BRISA_FRESCA == 79
VENTO_MODERADO == 107
VENTO_FORTE == 138
LIMITE_RAJADA_CRITICA == 150
CHUVA_GAROA == 25
CHUVA_FRACA == 100
CHUVA_MODERADA == 300
CHUVA_FORTE == 500
CHUVA_MUITO_FORTE == 500
CHUVA_ACUMULADA_ALERTA == 500
RAD_CREPUSCULO == 50
RAD_BAIXA == 1000
RAD_MODERADA == 2000
RAD_ALTA == 2500
RAD_MUITO_ALTA == 3000
RAD_EXTREMA == 3000
PRESSAO_MUITO_BAIXA == 10050
PRESSAO_BAIXA == 10100
PRESSAO_NORMAL == 10200
PRESSAO_ALTA == 10250
QUEDA_BRUSCA_LIMITE == -50
LIMITE_TEMP == 5
LIMITE_UMIDADE == 5
LIMITE_PRESSAO == 20
HORAS_ATUALIZACAO == 6

Dominios == {"temperatura", "umidade", "vento", "chuva", "radiacao", "pressao"}

\* main.py: the order in which the critical kinds are processed
tipos_criticos ==
    << "calor_extremo", "frio_extremo", "mudanca_brusca",
       "ar_muito_seco", "vento_forte",
       "chuva_intensa", "chuva_acumulada",
       "uv_extremo", "queda_brusca", "pressao_muito_baixa" >>

Tipos == {tipos_criticos[i] : i \in 1..Len(tipos_criticos)}

\* datetime.date() of a time stamp
Dia(t) == t \div HorasPorDia

(***************************************************************************)
(* Zone classifiers                                                        *)
(***************************************************************************)
\* a classifier that leaves a value equal to a limit in the lower zone
ZonaTemperatura_classificar_limite_abaixo(temperatura) ==
    IF temperatura <= CONFORTO_FRIO THEN "FRIO"
    ELSE IF temperatura <= CONFORTO_FRESCO THEN "FRESCO"
    ELSE IF temperatura <= CONFORTO_IDEAL THEN "IDEAL"
    ELSE IF temperatura <= CONFORTO_MORNO THEN "MORNO"
    ELSE IF temperatura <= CONFORTO_QUENTE THEN "QUENTE"
    ELSE IF temperatura <= CONFORTO_MUITO_QUENTE THEN "MUITO_QUENTE"
    ELSE "EXTREMO"

ZonaTemperatura_classificar(temperatura) ==
    IF temperatura < CONFORTO_FRIO THEN "FRIO"
    ELSE IF temperatura < CONFORTO_FRESCO THEN "FRESCO"
    ELSE IF temperatura < CONFORTO_IDEAL THEN "IDEAL"
    ELSE IF temperatura < CONFORTO_MORNO THEN "MORNO"
    ELSE IF temperatura < CONFORTO_QUENTE THEN "QUENTE"
    ELSE IF temperatura < CONFORTO_MUITO_QUENTE THEN "MUITO_QUENTE"
    ELSE "EXTREMO"

ZonaUmidade_classificar(umidade) ==
    IF umidade < UMID_MUITO_SECA THEN "MUITO_SECA"
    ELSE IF umidade < UMID_SECA THEN "SECA"
    ELSE IF umidade < UMID_BOA THEN "BOA"
    ELSE IF umidade < UMID_OTIMA THEN "OTIMA"
    ELSE IF umidade < UMID_ALTA THEN "ALTA"
    ELSE "MUITO_ALTA"

ZonaVento_classificar(velocidade) ==
    IF velocidade < VENTO_CALMO THEN "CALMO"
    ELSE IF velocidade < VENTO_ARAGEM THEN "ARAGEM"
    ELSE IF velocidade < VENTO_BRISA_LEVE THEN "BRISA_LEVE"
    ELSE IF velocidade < VENTO_BRISA_MODERADA THEN "BRISA_MODERADA"
    ELSE IF velocidade < VENTO_BRISA_FRESCA THEN "BRISA_FRESCA"
    ELSE IF velocidade < VENTO_MODERADO THEN "MODERADO"
    ELSE IF velocidade < VENTO_FORTE THEN "FORTE"
    ELSE "VENTANIA"

ZonaChuva_classificar(chuva_mm) ==
    IF chuva_mm = 0 THEN "SEM_CHUVA"
    ELSE IF chuva_mm < CHUVA_GAROA THEN "GAROA"
    ELSE IF chuva_mm < CHUVA_FRACA THEN "FRACA"
    ELSE IF chuva_mm < CHUVA_MODERADA THEN "MODERADA"
    ELSE IF chuva_mm < CHUVA_FORTE THEN "FORTE"
    ELSE "MUITO_FORTE"

\* a classifier that takes only a radiation of exactly 0 for night
ZonaRadiacao_classificar_so_zero(radiacao) ==
    IF radiacao = 0 THEN "NOITE"
    ELSE IF radiacao < RAD_CREPUSCULO THEN "CREPUSCULO"
    ELSE IF radiacao < RAD_BAIXA THEN "BAIXA"
    ELSE IF radiacao < RAD_MODERADA THEN "MODERADA"
    ELSE IF radiacao < RAD_ALTA THEN "ALTA"
    ELSE IF radiacao < RAD_MUITO_ALTA THEN "MUITO_ALTA"
    ELSE "EXTREMA"

ZonaRadiacao_classificar(radiacao) ==
    IF radiacao <= 0 THEN "NOITE"
    ELSE IF radiacao < RAD_CREPUSCULO THEN "CREPUSCULO"
    ELSE IF radiacao < RAD_BAIXA THEN "BAIXA"
    ELSE IF radiacao < RAD_MODERADA THEN "MODERADA"
    ELSE IF radiacao < RAD_ALTA THEN "ALTA"
    ELSE IF radiacao < RAD_MUITO_ALTA THEN "MUITO_ALTA"
    ELSE "EXTREMA"

ZonaPressao_classificar(pressao) ==
    IF pressao < PRESSAO_MUITO_BAIXA THEN "MUITO_BAIXA"
    ELSE IF pressao < PRESSAO_BAIXA THEN "BAIXA"
    ELSE IF pressao < PRESSAO_NORMAL THEN "NORMAL"
    ELSE IF pressao < PRESSAO_ALTA THEN "ALTA"
    ELSE "MUITO_ALTA"

\* the classifier of each domain, as processar_zonas pairs them
classificar(dominio, valor) ==
    CASE dominio = "temperatura" -> ZonaTemperatura_classificar(valor)
      [] dominio = "umidade" -> ZonaUmidade_classificar(valor)
      [] dominio = "vento" -> ZonaVento_classificar(valor)
      [] dominio = "chuva" -> ZonaChuva_classificar(valor)
      [] dominio = "radiacao" -> ZonaRadiacao_classificar(valor)
      [] dominio = "pressao" -> ZonaPressao_classificar(valor)

(***************************************************************************)
(* Transition detection (the six detectar_mudanca are the same code over   *)
(* the classifier of their domain)                                         *)
(***************************************************************************)
\* a detector that reports first readings only
detectar_mudanca_sem_mudanca(zona_atual, valor_atual, estado_anterior) ==
    IF estado_anterior.zona = None
    THEN Some([tipo |-> "primeira_leitura",
               zona_atual |-> zona_atual,
               valor_atual |-> valor_atual])
    ELSE None

\* a detector that compares the values instead of the zones
detectar_mudanca_por_valor(zona_atual, valor_atual, estado_anterior) ==
    IF estado_anterior.zona = None
    THEN Some([tipo |-> "primeira_leitura",
               zona_atual |-> zona_atual,
               valor_atual |-> valor_atual])
    ELSE IF Some(valor_atual) # estado_anterior.valor
    THEN Some([tipo |-> "mudanca_zona",
               zona_anterior |-> Val(estado_anterior.zona),
               zona_atual |-> zona_atual,
               valor_anterior |-> estado_anterior.valor,
               valor_atual |-> valor_atual])
    ELSE None

\* the body shared by the six detectors, given the zone already classified
detectar_mudanca(zona_atual, valor_atual, estado_anterior) ==
    LET zona_anterior == estado_anterior.zona
        valor_anterior == estado_anterior.valor
    IN  IF zona_anterior = None
        THEN Some([tipo |-> "primeira_leitura",
                   zona_atual |-> zona_atual,
                   valor_atual |-> valor_atual])
        ELSE IF Some(zona_atual) # zona_anterior
        THEN Some([tipo |-> "mudanca_zona",
                   zona_anterior |-> Val(zona_anterior),
                   zona_atual |-> zona_atual,
                   valor_anterior |-> valor_anterior,
                   valor_atual |-> valor_atual])
        ELSE None

ZonaTemperatura_detectar_mudanca(temp_atual, estado_anterior) ==
    detectar_mudanca(ZonaTemperatura_classificar(temp_atual), temp_atual, estado_anterior)

ZonaUmidade_detectar_mudanca(umid_atual, estado_anterior) ==
    detectar_mudanca(ZonaUmidade_classificar(umid_atual), umid_atual, estado_anterior)

ZonaVento_detectar_mudanca(vento_atual, estado_anterior) ==
    detectar_mudanca(ZonaVento_classificar(vento_atual), vento_atual, estado_anterior)

ZonaChuva_detectar_mudanca(chuva_atual, estado_anterior) ==
    detectar_mudanca(ZonaChuva_classificar(chuva_atual), chuva_atual, estado_anterior)

ZonaRadiacao_detectar_mudanca(rad_atual, estado_anterior) ==
    detectar_mudanca(ZonaRadiacao_classificar(rad_atual), rad_atual, estado_anterior)

ZonaPressao_detectar_mudanca(pressao_atual, estado_anterior) ==
    detectar_mudanca(ZonaPressao_classificar(pressao_atual), pressao_atual, estado_anterior)

\* gerar_alerta_inteligente of every domain: no message for a first reading,
\* a message (whose text is not modelled) for every zone change
gerar_alerta_inteligente(mudanca) ==
    IF mudanca.tipo = "primeira_leitura" THEN None ELSE Some(mudanca)

(***************************************************************************)
(* Critical conditions: each operator is the sequence of the kinds that    *)
(* verificar_critico returns, in the order it appends them                 *)
(***************************************************************************)
\* Python truthiness of an optional number: None and 0.0 are both false
Verdadeiro(o) == o # None /\ Val(o) # 0

ZonaTemperatura_verificar_critico(temp_atual, leitura_anterior) ==
    LET calor == IF temp_atual > CONFORTO_MUITO_QUENTE THEN <<"calor_extremo">> ELSE <<>>
        frio == IF temp_atual < TEMP_BAIXA THEN <<"frio_extremo">> ELSE <<>>
        brusca ==
            IF /\ leitura_anterior # None
               /\ Verdadeiro(Val(leitura_anterior).tem_ins)
               /\ Abs(temp_atual - Val(Val(leitura_anterior).tem_ins)) >= MUDANCA_BRUSCA_LIMITE
            THEN <<"mudanca_brusca">> ELSE <<>>
    IN  calor \o frio \o brusca

ZonaUmidade_verificar_critico(umid_atual) ==
    IF umid_atual < UMID_CRITICA THEN <<"ar_muito_seco">> ELSE <<>>

\* a check that takes a gust at the limit itself for critical
ZonaVento_verificar_critico_no_limite(vento_atual, rajada_atual) ==
    IF rajada_atual # 0 /\ rajada_atual >= LIMITE_RAJADA_CRITICA
    THEN <<"vento_forte">> ELSE <<>>

ZonaVento_verificar_critico(vento_atual, rajada_atual) ==
    IF rajada_atual # 0 /\ rajada_atual > LIMITE_RAJADA_CRITICA
    THEN <<"vento_forte">> ELSE <<>>

\* a check that tests the accumulation whether or not the intensity fired
ZonaChuva_verificar_critico_ambos(chuva_atual, acumulado_24h) ==
    (IF chuva_atual >= CHUVA_MUITO_FORTE THEN <<"chuva_intensa">> ELSE <<>>)
    \o (IF acumulado_24h > CHUVA_ACUMULADA_ALERTA THEN <<"chuva_acumulada">> ELSE <<>>)

ZonaChuva_verificar_critico(chuva_atual, acumulado_24h) ==
    IF chuva_atual >= CHUVA_MUITO_FORTE THEN <<"chuva_intensa">>
    ELSE IF acumulado_24h > CHUVA_ACUMULADA_ALERTA THEN <<"chuva_acumulada">>
    ELSE <<>>

ZonaRadiacao_verificar_critico(rad_atual) ==
    IF rad_atual >= RAD_EXTREMA THEN <<"uv_extremo">> ELSE <<>>

\* a check that tests the low pressure whether or not the drop fired
ZonaPressao_verificar_critico_ambos(pressao_atual, delta_1h) ==
    (IF delta_1h < QUEDA_BRUSCA_LIMITE THEN <<"queda_brusca">> ELSE <<>>)
    \o (IF pressao_atual < PRESSAO_MUITO_BAIXA THEN <<"pressao_muito_baixa">> ELSE <<>>)

\* a check whose drop test includes the limit itself
ZonaPressao_verificar_critico_menor_igual(pressao_atual, delta_1h) ==
    IF delta_1h <= QUEDA_BRUSCA_LIMITE THEN <<"queda_brusca">>
    ELSE IF pressao_atual < PRESSAO_MUITO_BAIXA THEN <<"pressao_muito_baixa">>
    ELSE <<>>

ZonaPressao_verificar_critico(pressao_atual, delta_1h) ==
    IF delta_1h < QUEDA_BRUSCA_LIMITE THEN <<"queda_brusca">>
    ELSE IF pressao_atual < PRESSAO_MUITO_BAIXA THEN <<"pressao_muito_baixa">>
    ELSE <<>>

\* a detector that takes a missing earlier radiation for darkness
ZonaRadiacao_detectar_transicao_sem_anterior(rad_atual, rad_anterior) ==
    IF (rad_anterior = None \/ Val(rad_anterior) <= 0) /\ rad_atual > 0 THEN Some("bom_dia")
    ELSE IF rad_anterior # None /\ Val(rad_anterior) > 0 /\ rad_atual <= 0
    THEN Some("boa_noite")
    ELSE None

ZonaRadiacao_detectar_transicao(rad_atual, rad_anterior) ==
    IF rad_anterior = None THEN None
    ELSE IF Val(rad_anterior) <= 0 /\ rad_atual > 0 THEN Some("bom_dia")
    ELSE IF Val(rad_anterior) > 0 /\ rad_atual <= 0 THEN Some("boa_noite")
    ELSE None

(***************************************************************************)
(* database.py                                                             *)
(***************************************************************************)
\* get_pressure_variation(hours): current minus earlier pressure; 0.0 when
\* the earlier reading is missing or the subtraction raises (pre_ins NULL)
get_pressure_variation(leitura, leitura_anterior) ==
    IF leitura_anterior # None /\ Val(leitura_anterior).pre_ins # None
    THEN leitura.pre_ins - Val(Val(leitura_anterior).pre_ins)
    ELSE 0

\* get_night_summary() when the latest row has rad_glo > 0: the newest
\* daylight row is the latest row itself, no row is newer than it, and the
\* aggregate over no rows is one row of NULLs; a query error gives None
ResumosNoite == {"nulos", "nenhum"}

\* get_day_summary(): an aggregate row over today's daylight rows ("ok"), the
\* row of NULLs when today has none ("nulos"), None on a query error
ResumosDia == {"ok", "nulos", "nenhum"}

(***************************************************************************)
(* state_manager.py: the state document and its operations.  The document  *)
(* is a record; zonas[d] stands for the top-level key of domain d, and an  *)
(* absent entry of alertas_criticos is None.                               *)
(***************************************************************************)
StateManager_create_default_states(t) ==
    [ timestamp |-> t,
      zonas |-> [d \in Dominios |-> [zona |-> None, valor |-> None, ultima_mudanca |-> None]],
      alertas_criticos |-> [k \in Tipos |-> None],
      alerta_geral |-> [ultima_temp |-> None, ultima_umid |-> None,
                        ultima_pressao |-> None, ultimo_envio |-> None],
      relatorios |-> [ultimo_bom_dia |-> None, ultimo_boa_noite |-> None] ]

\* a state file that json.load cannot parse
Corrupto == << [ilegivel |-> TRUE] >>

\* a load that answers a missing or unparsable file with a document that still
\* holds a general-alert snapshot
StateManager_load_com_snapshot(arquivo, t) ==
    IF arquivo = None \/ arquivo = Corrupto
    THEN [StateManager_create_default_states(t) EXCEPT
             !.alerta_geral = [ultima_temp |-> Some(0), ultima_umid |-> Some(0),
                               ultima_pressao |-> Some(0), ultimo_envio |-> Some(t)]]
    ELSE Val(arquivo)

\* load(): the default document when the file does not exist or json.load
\* raises, else its content
StateManager_load(arquivo, t) ==
    IF arquivo = None \/ arquivo = Corrupto
    THEN StateManager_create_default_states(t)
    ELSE Val(arquivo)

StateManager_get_zone_state(st, zona_nome) == st.zonas[zona_nome]

\* an update that writes nothing
StateManager_update_zone_state_nulo(st, zona_nome, zona_atual, valor_atual, t) == st

\* an update that writes the new zone beside the value already recorded
StateManager_update_zone_state_sem_valor(st, zona_nome, zona_atual, valor_atual, t) ==
    [st EXCEPT !.zonas[zona_nome] =
        [zona |-> Some(zona_atual),
         valor |-> IF st.zonas[zona_nome].valor = None THEN Some(valor_atual)
                   ELSE st.zonas[zona_nome].valor,
         ultima_mudanca |-> Some(t)]]

StateManager_update_zone_state(st, zona_nome, zona_atual, valor_atual, t) ==
    [st EXCEPT !.zonas[zona_nome] =
        [zona |-> Some(zona_atual), valor |-> Some(valor_atual), ultima_mudanca |-> Some(t)]]

StateManager_update_general_alert(st, temp, umid, pressao, t) ==
    [st EXCEPT !.alerta_geral =
        [ultima_temp |-> Some(temp), ultima_umid |-> Some(umid),
         ultima_pressao |-> Some(pressao), ultimo_envio |-> Some(t)]]

StateManager_update_report(st, tipo, t) ==
    IF tipo = "bom_dia" THEN [st EXCEPT !.relatorios.ultimo_bom_dia = Some(t)]
    ELSE IF tipo = "boa_noite" THEN [st EXCEPT !.relatorios.ultimo_boa_noite = Some(t)]
    ELSE st

StateManager_get_critical_state(st, tipo_critico) ==
    IF st.alertas_criticos[tipo_critico] = None THEN FALSE
    ELSE Val(st.alertas_criticos[tipo_critico]).ativo

StateManager_update_critical_state(st, tipo_critico, ativo, t) ==
    [st EXCEPT !.alertas_criticos[tipo_critico] =
        Some([ativo |-> ativo, ultima_mudanca |-> t])]

\* a gate that is always open
StateManager_should_send_critical_sempre(st, tipo_critico, ativo_agora) == TRUE

StateManager_should_send_critical(st, tipo_critico, ativo_agora) ==
    LET estado_anterior == StateManager_get_critical_state(st, tipo_critico)
    IN  IF estado_anterior # ativo_agora THEN TRUE ELSE FALSE

\* a decision that takes the deltas against the last reading the zone states
\* recorded, not against the last dispatched snapshot
StateManager_should_send_general_alert_ultima_leitura(st, temp_atual, umid_atual, pressao_atual, t) ==
    LET estado_geral == st.alerta_geral
        visto(d, v) == IF st.zonas[d].valor = None THEN v ELSE Val(st.zonas[d].valor)
    IN  IF estado_geral.ultima_temp = None THEN <<TRUE, "primeira_leitura">>
        ELSE IF Abs(temp_atual - visto("temperatura", temp_atual)) >= LIMITE_TEMP
        THEN <<TRUE, "temp">>
        ELSE IF Abs(umid_atual - visto("umidade", umid_atual)) >= LIMITE_UMIDADE
        THEN <<TRUE, "umid">>
        ELSE IF Abs(pressao_atual - visto("pressao", pressao_atual)) >= LIMITE_PRESSAO
        THEN <<TRUE, "pressao">>
        ELSE IF /\ estado_geral.ultimo_envio # None
                /\ t - Val(estado_geral.ultimo_envio) >= HORAS_ATUALIZACAO
        THEN <<TRUE, "periodica">>
        ELSE <<FALSE, "">>

\* returns <<deve_enviar, motivo>>; the motive is the cause, not its text
StateManager_should_send_general_alert(st, temp_atual, umid_atual, pressao_atual, t) ==
    LET estado_geral == st.alerta_geral
    IN  IF estado_geral.ultima_temp = None THEN <<TRUE, "primeira_leitura">>
        ELSE IF Abs(temp_atual - Val(estado_geral.ultima_temp)) >= LIMITE_TEMP
        THEN <<TRUE, "temp">>
        ELSE IF Abs(umid_atual - Val(estado_geral.ultima_umid)) >= LIMITE_UMIDADE
        THEN <<TRUE, "umid">>
        ELSE IF Abs(pressao_atual - Val(estado_geral.ultima_pressao)) >= LIMITE_PRESSAO
        THEN <<TRUE, "pressao">>
        ELSE IF /\ estado_geral.ultimo_envio # None
                /\ t - Val(estado_geral.ultimo_envio) >= HORAS_ATUALIZACAO
        THEN <<TRUE, "periodica">>
        ELSE <<FALSE, "">>

StateManager_should_send_report(st, tipo, rad_atual, rad_anterior, t) ==
    LET relatorios == st.relatorios
    IN  IF tipo = "bom_dia"
        THEN IF rad_anterior # None /\ Val(rad_anterior) <= 0 /\ rad_atual > 0
             THEN IF /\ relatorios.ultimo_bom_dia # None
                     /\ Dia(Val(relatorios.ultimo_bom_dia)) = Dia(t)
                  THEN FALSE
                  ELSE TRUE
             ELSE FALSE
        ELSE IF tipo = "boa_noite"
        THEN IF rad_anterior # None /\ Val(rad_anterior) > 0 /\ rad_atual <= 0
             THEN IF /\ relatorios.ultimo_boa_noite # None
                     /\ Dia(Val(relatorios.ultimo_boa_noite)) = Dia(t)
                  THEN FALSE
                  ELSE TRUE
             ELSE FALSE
        ELSE FALSE

(***************************************************************************)
(* main.py: processar_zonas                                                *)
(***************************************************************************)
\* the sequence in which processar_zonas visits the domains
OrdemDominios == << "temperatura", "umidade", "vento", "chuva", "radiacao", "pressao" >>

\* the field of the reading that each domain classifies
ValorAtual(leitura, dominio) ==
    CASE dominio = "temperatura" -> leitura.tem_ins
      [] dominio = "umidade" -> leitura.umd_ins
      [] dominio = "vento" -> leitura.ven_vel
      [] dominio = "chuva" -> leitura.chuva
      [] dominio = "radiacao" -> leitura.rad_glo
      [] dominio = "pressao" -> leitura.pre_ins

DetectarMudanca(dominio, valor, estado_anterior) ==
    CASE dominio = "temperatura" -> ZonaTemperatura_detectar_mudanca(valor, estado_anterior)
      [] dominio = "umidade" -> ZonaUmidade_detectar_mudanca(valor, estado_anterior)
      [] dominio = "vento" -> ZonaVento_detectar_mudanca(valor, estado_anterior)
      [] dominio = "chuva" -> ZonaChuva_detectar_mudanca(valor, estado_anterior)
      [] dominio = "radiacao" -> ZonaRadiacao_detectar_mudanca(valor, estado_anterior)
      [] dominio = "pressao" -> ZonaPressao_detectar_mudanca(valor, estado_anterior)

\* a block that hands the current zone and value to the update whether or
\* not the detector reported an event
BlocoZona_sempre_estado(leitura, dominio, st) ==
    LET valor == ValorAtual(leitura, dominio)
        mudanca == DetectarMudanca(dominio, valor, StateManager_get_zone_state(st, dominio))
    IN  [estado |-> Some([zona |-> classificar(dominio, valor), valor |-> valor]),
         alertas |->
            IF /\ mudanca # None
               /\ Val(mudanca).tipo = "mudanca_zona"
               /\ gerar_alerta_inteligente(Val(mudanca)) # None
            THEN << [zona_nome |-> dominio, mudanca |-> Val(mudanca)] >>
            ELSE <<>>]

\* the block of one domain: its entry of estados_atuais (None when there is
\* no event) and what it appends to alertas_inteligentes
BlocoZona(leitura, dominio, st) ==
    LET valor == ValorAtual(leitura, dominio)
        mudanca == DetectarMudanca(dominio, valor, StateManager_get_zone_state(st, dominio))
    IN  IF mudanca = None
        THEN [estado |-> None, alertas |-> <<>>]
        ELSE [estado |-> Some([zona |-> Val(mudanca).zona_atual, valor |-> valor]),
              alertas |->
                 IF /\ Val(mudanca).tipo = "mudanca_zona"
                    /\ gerar_alerta_inteligente(Val(mudanca)) # None
                 THEN << [zona_nome |-> dominio, mudanca |-> Val(mudanca)] >>
                 ELSE <<>>]

RECURSIVE AlertasInteligentes(_, _, _)
AlertasInteligentes(leitura, st, i) ==
    IF i > Len(OrdemDominios) THEN <<>>
    ELSE BlocoZona(leitura, OrdemDominios[i], st).alertas
            \o AlertasInteligentes(leitura, st, i + 1)

processar_zonas(leitura, leitura_1h, acumulado_24h, st) ==
    LET rad_anterior == IF leitura_1h # None THEN Val(leitura_1h).rad_glo ELSE None
        delta_1h == get_pressure_variation(leitura, leitura_1h)
    IN  [ alertas_inteligentes |-> AlertasInteligentes(leitura, st, 1),
          alertas_criticos |->
              ZonaTemperatura_verificar_critico(leitura.tem_ins, leitura_1h)
              \o ZonaUmidade_verificar_critico(leitura.umd_ins)
              \o ZonaVento_verificar_critico(leitura.ven_vel, leitura.ven_raj)
              \o ZonaChuva_verificar_critico(leitura.chuva, acumulado_24h)
              \o ZonaRadiacao_verificar_critico(leitura.rad_glo)
              \o ZonaPressao_verificar_critico(leitura.pre_ins, delta_1h),
          estados_atuais |-> [d \in Dominios |-> BlocoZona(leitura, d, st).estado],
          transicao |-> ZonaRadiacao_detectar_transicao(leitura.rad_glo, rad_anterior) ]

\* a loop that records the zone changes and skips the first readings
AtualizarEstados_so_mudancas(st, estados, i, t) ==
    [st EXCEPT !.zonas = [d \in Dominios |->
        IF estados[d] = None \/ st.zonas[d].zona = None THEN st.zonas[d]
        ELSE [zona |-> Some(Val(estados[d]).zona), valor |-> Some(Val(estados[d]).valor),
              ultima_mudanca |-> Some(t)]]]

\* main.py 256-258: every entry of estados_atuais is written to the document
RECURSIVE AtualizarEstados(_, _, _, _)
AtualizarEstados(st, estados, i, t) ==
    IF i > Len(OrdemDominios) THEN st
    ELSE LET d == OrdemDominios[i]
             st1 == IF estados[d] = None THEN st
                    ELSE StateManager_update_zone_state(
                            st, d, Val(estados[d]).zona, Val(estados[d]).valor, t)
         IN  AtualizarEstados(st1, estados, i + 1, t)

(***************************************************************************)
(* main.py: the loop over the critical kinds                               *)
(***************************************************************************)
\* criticos_ativos: the kinds that processar_zonas reported
CriticosAtivos(alertas_criticos) ==
    [k \in Tipos |-> \E i \in 1..Len(alertas_criticos) : alertas_criticos[i] = k]

\* an iteration that records the active flag whatever the notifier answers
PassoCritico_sem_confirmacao(acc, tipo, ativo, sucesso, t) ==
    LET deve_enviar == StateManager_should_send_critical(acc.states, tipo, ativo)
        chamadas1 == [acc.chamadas EXCEPT ![tipo] = Some([ativo |-> ativo, ret |-> deve_enviar])]
    IN  IF deve_enviar
        THEN [ states |-> StateManager_update_critical_state(acc.states, tipo, ativo, t),
               enviados |-> IF ativo
                            THEN Append(acc.enviados,
                                        [classe |-> "critico", nome |-> tipo, ok |-> sucesso])
                            ELSE acc.enviados,
               chamadas |-> chamadas1 ]
        ELSE [ states |-> acc.states, enviados |-> acc.enviados, chamadas |-> chamadas1 ]

\* One iteration of the loop for kind tipo.  acc carries the document, the
\* notifier log and the value returned by should_send_critical for each kind;
\* sucesso is what enviar_whatsapp returns if it is called.  The generators
\* gerar_alerta_critico return a message for every kind routed to them.
\* an iteration that never sets a flag back to inactive
PassoCritico_sem_baixa(acc, tipo, ativo, sucesso, t) ==
    LET deve_enviar == StateManager_should_send_critical(acc.states, tipo, ativo)
        chamadas1 == [acc.chamadas EXCEPT ![tipo] = Some([ativo |-> ativo, ret |-> deve_enviar])]
    IN  IF deve_enviar /\ ativo
        THEN [ states |-> IF sucesso
                          THEN StateManager_update_critical_state(acc.states, tipo, TRUE, t)
                          ELSE acc.states,
               enviados |-> Append(acc.enviados,
                                   [classe |-> "critico", nome |-> tipo, ok |-> sucesso]),
               chamadas |-> chamadas1 ]
        ELSE [ states |-> acc.states, enviados |-> acc.enviados, chamadas |-> chamadas1 ]

PassoCritico(acc, tipo, ativo, sucesso, t) ==
    LET deve_enviar == StateManager_should_send_critical(acc.states, tipo, ativo)
        chamadas1 == [acc.chamadas EXCEPT ![tipo] = Some([ativo |-> ativo, ret |-> deve_enviar])]
    IN  IF deve_enviar /\ ativo
        THEN [ states |-> IF sucesso
                          THEN StateManager_update_critical_state(acc.states, tipo, TRUE, t)
                          ELSE acc.states,
               enviados |-> Append(acc.enviados,
                                   [classe |-> "critico", nome |-> tipo, ok |-> sucesso]),
               chamadas |-> chamadas1 ]
        ELSE IF deve_enviar /\ ~ativo
        THEN [ states |-> StateManager_update_critical_state(acc.states, tipo, FALSE, t),
               enviados |-> acc.enviados,
               chamadas |-> chamadas1 ]
        ELSE [ states |-> acc.states, enviados |-> acc.enviados, chamadas |-> chamadas1 ]

RECURSIVE LoopCriticos(_, _, _, _, _)
LoopCriticos(i, acc, criticos_ativos, falhas, t) ==
    IF i > Len(tipos_criticos) THEN acc
    ELSE LET tipo == tipos_criticos[i]
             prox == PassoCritico(acc, tipo, criticos_ativos[tipo], tipo \notin falhas, t)
         IN  LoopCriticos(i + 1, prox, criticos_ativos, falhas, t)

\* a loop that ends at the first alert the notifier refuses
RECURSIVE LoopInteligentes_aborta(_, _, _, _)
LoopInteligentes_aborta(i, alertas, falhas, log) ==
    IF i > Len(alertas) THEN log
    ELSE IF i \in falhas
    THEN Append(log, [classe |-> "zona", nome |-> alertas[i].zona_nome, ok |-> FALSE])
    ELSE LoopInteligentes_aborta(i + 1, alertas, falhas,
            Append(log, [classe |-> "zona", nome |-> alertas[i].zona_nome, ok |-> TRUE]))

\* main.py 260-264: every intelligent alert is handed to the notifier and the
\* result is ignored; falhas are the positions whose send fails
RECURSIVE LoopInteligentes(_, _, _, _)
LoopInteligentes(i, alertas, falhas, log) ==
    IF i > Len(alertas) THEN log
    ELSE LoopInteligentes(i + 1, alertas, falhas,
            Append(log, [classe |-> "zona", nome |-> alertas[i].zona_nome,
                         ok |-> i \notin falhas]))

(***************************************************************************)
(* Inputs of one invocation: the latest reading (after get_latest_reading  *)
(* has replaced NULL by 0.0), the readings one and three hours earlier     *)
(* (fields may be NULL) and the 24-hour rain                               *)
(***************************************************************************)
Amena ==
    [tem_ins |-> 220, umd_ins |-> 55, ven_vel |-> 20, ven_raj |-> 30,
     chuva |-> 0, rad_glo |-> 500, pre_ins |-> 10150]

Anterior(tem, rad, pre) == Some([tem_ins |-> Some(tem), rad_glo |-> Some(rad), pre_ins |-> Some(pre)])

Cenarios ==
    { \* mild afternoon
      [leitura |-> Amena, leitura_1h |-> Anterior(215, 400, 10150),
       leitura_3h |-> Some([umd_ins |-> Some(50)]), acumulado_24h |-> 0],
      \* the same zones, the values moved inside them
      [leitura |-> [tem_ins |-> 239, umd_ins |-> 69, ven_vel |-> 32, ven_raj |-> 40,
                    chuva |-> 0, rad_glo |-> 999, pre_ins |-> 10199],
       leitura_1h |-> Anterior(220, 500, 10150),
       leitura_3h |-> None, acumulado_24h |-> 0],
      \* extreme afternoon: every domain jumps several zones; 5.5 degrees and
      \* 6 hPa in one hour, 55 mm/h of rain, gusts of 16 m/s
      [leitura |-> [tem_ins |-> 335, umd_ins |-> 15, ven_vel |-> 140, ven_raj |-> 160,
                    chuva |-> 550, rad_glo |-> 3000, pre_ins |-> 10040],
       leitura_1h |-> Anterior(280, 2600, 10100),
       leitura_3h |-> Some([umd_ins |-> Some(30)]), acumulado_24h |-> 700],
      \* cold wet night: low steady pressure, light rain after a rainy day
      [leitura |-> [Amena EXCEPT !.tem_ins = 175, !.rad_glo = 0, !.chuva = 5,
                                 !.pre_ins = 10040],
       leitura_1h |-> Anterior(178, 0, 10040),
       leitura_3h |-> Some([umd_ins |-> Some(58)]), acumulado_24h |-> 600],
      \* cold dawn: first light, the reading one hour earlier was dark
      [leitura |-> [Amena EXCEPT !.tem_ins = 175, !.rad_glo = 10],
       leitura_1h |-> Anterior(178, 0, 10150),
       leitura_3h |-> Some([umd_ins |-> Some(58)]), acumulado_24h |-> 0],
      \* dusk: the reading one hour earlier still had light
      [leitura |-> [Amena EXCEPT !.rad_glo = 0],
       leitura_1h |-> Anterior(222, 20, 10150),
       leitura_3h |-> Some([umd_ins |-> Some(52)]), acumulado_24h |-> 0],
      \* dark with a negative radiation reading, no row one hour earlier and
      \* a row without humidity three hours earlier
      [leitura |-> [Amena EXCEPT !.rad_glo = -5],
       leitura_1h |-> None,
       leitura_3h |-> Some([umd_ins |-> None]), acumulado_24h |-> 0] }

\* at most this many faults of the environment (a send that fails, a query
\* or a save that raises) in one behaviour
MaxFalhas == 1

\* at most this many invocations of main() in one behaviour
MaxCiclos == 2

(***************************************************************************)
(* State                                                                   *)
(***************************************************************************)
VARIABLES
    pc,             \* position of the invocation of main()
    agora,          \* datetime.now(), constant during one invocation
    state_file,     \* states.json: None when missing, else the document
    backup_file,    \* states_backup.json
    states,         \* StateManager.states of the running invocation
    cen,            \* leitura, leitura_1h, leitura_3h, acumulado_24h
    res,            \* what processar_zonas returned
    enviados,       \* messages handed to enviar_whatsapp in this invocation
    chamadas,       \* this invocation's calls of should_send_critical
    salvo,          \* save() returned True in this invocation
    exit_code,      \* return value of main(), None while it runs
    arquivo_inicio, \* state_file when this invocation started
    backup_inicio,  \* backup_file when this invocation started
    alertado,       \* kinds alerted since they were last evaluated inactive
    chamadas_ant,   \* per kind, the call of the latest earlier invocation
    relatorios_enviados, \* <<type, date>> of every report delivered
    falhas,         \* faults of the environment so far
    ciclo,          \* invocations of main() started so far
    db,             \* the database connection of the latest invocation
    envio,          \* one call of enviar_whatsapp and its sender process
    outro,          \* a second invocation of main() that overlaps the first
    coletor,        \* the collector: its SQLite and MySQL tables and its run
    api             \* the query service: its table, cache and requests

vars == << pc, agora, state_file, backup_file, states, cen, res, enviados, chamadas,
           salvo, exit_code, arquivo_inicio, backup_inicio, alertado, chamadas_ant,
           relatorios_enviados, falhas, ciclo, db, envio, outro, coletor, api >>

\* the variables of the sentinel's invocation and the variables of the other
\* programs of the repository
sentinela == << pc, agora, state_file, backup_file, states, cen, res, enviados, chamadas,
                salvo, exit_code, arquivo_inicio, backup_inicio, alertado, chamadas_ant,
                relatorios_enviados, falhas, ciclo, db >>
externos == << envio, outro, coletor, api >>

\* no call of enviar_whatsapp under observation
EnvioParado == [pc |-> "parado"]

\* no second invocation
OutroParado == [pc |-> "parado"]

\* the collector is not observed
ColetorParado == [pc |-> "parado"]

\* the query service is not observed
ApiParada == [pc |-> "parada"]

ExternosParados ==
    /\ envio = EnvioParado
    /\ outro = OutroParado
    /\ coletor = ColetorParado
    /\ api = ApiParada

\* the sets of sends of S that may fail within the fault budget
Falhas(S) == {F \in SUBSET S : falhas + Cardinality(F) <= MaxFalhas}

\* one more fault fits the budget
PodeFalhar == falhas < MaxFalhas

SemResultado ==
    [alertas_inteligentes |-> <<>>, alertas_criticos |-> <<>>,
     estados_atuais |-> [d \in Dominios |-> None], transicao |-> None]

SemChamadas == [k \in Tipos |-> None]

SemCenario == [leitura |-> Amena, leitura_1h |-> None, leitura_3h |-> None, acumulado_24h |-> 0]

Terminou == pc \in {"idle", "done", "failed"}

Init ==
    /\ pc = "idle"
    /\ agora = 0
    /\ state_file = None
    /\ backup_file = None
    /\ states = StateManager_create_default_states(0)
    /\ cen = SemCenario
    /\ res = SemResultado
    /\ enviados = <<>>
    /\ chamadas = SemChamadas
    /\ salvo = FALSE
    /\ exit_code = None
    /\ arquivo_inicio = None
    /\ backup_inicio = None
    /\ alertado = {}
    /\ chamadas_ant = SemChamadas
    /\ relatorios_enviados = {}
    /\ falhas = 0
    /\ ciclo = 0
    /\ db = "fechada"
    /\ ExternosParados

(***************************************************************************)
(* Observations on the notifier log                                        *)
(***************************************************************************)
Entregue(classe, nome) ==
    \E i \in 1..Len(enviados) :
        enviados[i].classe = classe /\ enviados[i].nome = nome /\ enviados[i].ok

Tentado(classe, nome) ==
    \E i \in 1..Len(enviados) : enviados[i].classe = classe /\ enviados[i].nome = nome

\* what the finished invocation leaves for the next one to compare with: per
\* kind, the value it evaluated and whether the flag of the kind then agreed
\* with it in a saved document (nothing to record, or recorded and saved)
ResumoChamadas ==
    [k \in Tipos |->
        IF chamadas[k] = None THEN chamadas_ant[k]
        ELSE Some([ativo |-> Val(chamadas[k]).ativo,
                   assentado |-> /\ pc = "done" /\ salvo
                                 /\ \/ ~Val(chamadas[k]).ret
                                    \/ ~Val(chamadas[k]).ativo
                                    \/ Entregue("critico", k)])]

arquivos == << state_file, backup_file >>
entradas == << cen, res >>
inicio == << arquivo_inicio, backup_inicio, chamadas_ant, ciclo >>

(***************************************************************************)
(* Time passes between two invocations                                     *)
(***************************************************************************)
Relogio ==
    /\ Terminou
    /\ \E p \in Passos :
          /\ agora + p <= MaxAgora
          /\ agora' = agora + p
    /\ UNCHANGED << pc, arquivos, states, entradas, enviados, chamadas, salvo, exit_code,
                    inicio, alertado, relatorios_enviados, falhas, db >>

(***************************************************************************)
(* main(): start of an invocation                                          *)
(***************************************************************************)
\* what every start does to the observation variables
NovoCiclo ==
    /\ Terminou
    /\ ciclo < MaxCiclos
    /\ ciclo' = ciclo + 1
    /\ enviados' = <<>>
    /\ chamadas' = SemChamadas
    /\ chamadas_ant' = ResumoChamadas
    /\ salvo' = FALSE
    /\ res' = SemResultado
    /\ arquivo_inicio' = state_file
    /\ backup_inicio' = backup_file
    /\ UNCHANGED << agora, arquivos, alertado, relatorios_enviados, falhas >>

\* db.connect() fails: return 1
IniciarFalhaConexao ==
    /\ NovoCiclo
    /\ db' = "sem_conexao"
    /\ pc' = "failed"
    /\ exit_code' = Some(1)
    /\ cen' = SemCenario
    /\ states' = StateManager_create_default_states(0)

\* a start that goes on to evaluate although no reading was fetched
IniciarSemLeitura_continua ==
    /\ NovoCiclo
    /\ db' = "aberta"
    /\ pc' = "avaliar"
    /\ exit_code' = None
    /\ cen' = SemCenario
    /\ states' = StateManager_load(state_file, agora)

\* get_latest_reading() returns None: return 1, and finally closes
IniciarSemLeitura ==
    /\ NovoCiclo
    /\ db' = "fechada"
    /\ pc' = "failed"
    /\ exit_code' = Some(1)
    /\ cen' = SemCenario
    /\ states' = StateManager_create_default_states(0)

\* the readings, one of C, are fetched and StateManager() loads the document
IniciarCom(C) ==
    /\ NovoCiclo
    /\ db' = "aberta"
    /\ pc' = "avaliar"
    /\ exit_code' = None
    /\ cen' \in C
    /\ states' = StateManager_load(state_file, agora)

Iniciar == IniciarCom(Cenarios)

\* processar_zonas and the unconditional update of the zone states
Avaliar ==
    /\ pc = "avaliar"
    /\ LET r == processar_zonas(cen.leitura, cen.leitura_1h, cen.acumulado_24h, states)
       IN  /\ res' = r
           /\ states' = AtualizarEstados(states, r.estados_atuais, 1, agora)
           /\ alertado' = {k \in alertado : CriticosAtivos(r.alertas_criticos)[k]}
    /\ pc' = "inteligentes"
    /\ UNCHANGED << agora, arquivos, cen, enviados, chamadas, salvo, exit_code, inicio,
                    relatorios_enviados, falhas, db >>

\* the intelligent alerts are sent, whatever enviar_whatsapp answers
EnviarInteligentes ==
    /\ pc = "inteligentes"
    /\ \E F \in Falhas(1..Len(res.alertas_inteligentes)) :
          /\ enviados' = LoopInteligentes(1, res.alertas_inteligentes, F, enviados)
          /\ falhas' = falhas + Cardinality(F)
    /\ pc' = "criticos"
    /\ UNCHANGED << agora, arquivos, states, entradas, chamadas, salvo, exit_code, inicio,
                    alertado, relatorios_enviados, db >>

\* the kinds for which the loop calls enviar_whatsapp
CriticosAEnviar ==
    {k \in Tipos : /\ CriticosAtivos(res.alertas_criticos)[k]
                   /\ StateManager_should_send_critical(states, k, TRUE)}

\* the loop over tipos_criticos
EnviarCriticos ==
    /\ pc = "criticos"
    /\ \E F \in Falhas(CriticosAEnviar) :
          LET fim == LoopCriticos(1, [states |-> states, enviados |-> enviados,
                                      chamadas |-> chamadas],
                                  CriticosAtivos(res.alertas_criticos), F, agora)
          IN  /\ states' = fim.states
              /\ enviados' = fim.enviados
              /\ chamadas' = fim.chamadas
              /\ alertado' = alertado \cup (CriticosAEnviar \ F)
              /\ falhas' = falhas + Cardinality(F)
    /\ pc' = "relatorio"
    /\ UNCHANGED << agora, arquivos, entradas, salvo, exit_code, inicio,
                    relatorios_enviados, db >>

(***************************************************************************)
(* main(): the except branch (log, return 1) runs no save; finally closes  *)
(***************************************************************************)
\* an except branch that saves the document before it returns
Excecao_com_save ==
    /\ pc' = "failed"
    /\ exit_code' = Some(1)
    /\ db' = "fechada"
    /\ backup_file' = (IF state_file # None THEN state_file ELSE backup_file)
    /\ state_file' = Some(states)

\* an except branch that runs the evaluation again
Excecao_repete ==
    /\ pc' = "avaliar"
    /\ exit_code' = None
    /\ db' = "aberta"
    /\ UNCHANGED arquivos

Excecao ==
    /\ pc' = "failed"
    /\ exit_code' = Some(1)
    /\ db' = "fechada"
    /\ UNCHANGED arquivos

(***************************************************************************)
(* main(): reports                                                         *)
(***************************************************************************)
\* leitura_1h['rad_glo'] if leitura_1h else None
Rad1h == IF cen.leitura_1h # None THEN Val(cen.leitura_1h).rad_glo ELSE None

\* the summary kinds the query of a report type can return
Resumos(tipo) == IF tipo = "bom_dia" THEN ResumosNoite ELSE ResumosDia

\* compor_relatorio_bom_dia formats temp_min with ':.1f' and
\* compor_relatorio_boa_noite compares rad_max with a number: both raise
\* TypeError on the row of NULLs and return the message otherwise
MessageComposer_compor_relatorio(tipo, resumo) ==
    IF resumo = "nulos" THEN "TypeError" ELSE "mensagem"

\* a transition was detected and should_send_report allows its report
RelatorioPermitido ==
    /\ res.transicao # None
    /\ StateManager_should_send_report(states, Val(res.transicao),
                                       cen.leitura.rad_glo, Rad1h, agora)

\* no transition, the gate is closed, or the summary query failed and
\* returned None
RelatorioSemEnvio ==
    /\ pc = "relatorio"
    /\ \/ ~RelatorioPermitido /\ falhas' = falhas
       \/ /\ RelatorioPermitido
          /\ "nenhum" \in Resumos(Val(res.transicao))
          /\ PodeFalhar
          /\ falhas' = falhas + 1
    /\ pc' = "geral"
    /\ UNCHANGED << agora, arquivos, states, entradas, enviados, chamadas, salvo,
                    exit_code, inicio, alertado, relatorios_enviados, db >>

\* the composer raises on the summary: the cycle ends in the except branch
RelatorioExcecao ==
    /\ pc = "relatorio"
    /\ RelatorioPermitido
    /\ \E resumo \in Resumos(Val(res.transicao)) \ {"nenhum"} :
          MessageComposer_compor_relatorio(Val(res.transicao), resumo) = "TypeError"
    /\ Excecao
    /\ UNCHANGED << agora, states, entradas, enviados, chamadas, salvo, inicio, alertado,
                    relatorios_enviados, falhas >>

\* the report is composed and sent; update_report runs only on success
RelatorioEnviar ==
    /\ pc = "relatorio"
    /\ RelatorioPermitido
    /\ \E resumo \in Resumos(Val(res.transicao)) \ {"nenhum"} :
          MessageComposer_compor_relatorio(Val(res.transicao), resumo) = "mensagem"
    /\ \E sucesso \in {TRUE} \cup {FALSE : x \in {1} \cap {IF PodeFalhar THEN 1 ELSE 0}} :
          /\ enviados' = Append(enviados, [classe |-> "relatorio",
                                           nome |-> Val(res.transicao), ok |-> sucesso])
          /\ states' = IF sucesso
                       THEN StateManager_update_report(states, Val(res.transicao), agora)
                       ELSE states
          /\ relatorios_enviados' =
                IF sucesso
                THEN relatorios_enviados \cup {<<Val(res.transicao), Dia(agora)>>}
                ELSE relatorios_enviados
          /\ falhas' = IF sucesso THEN falhas ELSE falhas + 1
    /\ pc' = "geral"
    /\ UNCHANGED << agora, arquivos, entradas, chamadas, salvo, exit_code, inicio,
                    alertado, db >>

(***************************************************************************)
(* main(): general alert                                                   *)
(***************************************************************************)
DecisaoGeral ==
    StateManager_should_send_general_alert(
        states, cen.leitura.tem_ins, cen.leitura.umd_ins, cen.leitura.pre_ins, agora)

\* leitura['umd_ins'] - leitura_3h['umd_ins'] raises when the earlier row
\* holds NULL humidity
VariacaoUmidadeFalha ==
    cen.leitura_3h # None /\ Val(cen.leitura_3h).umd_ins = None

GeralSemEnvio ==
    /\ pc = "geral"
    /\ ~DecisaoGeral[1]
    /\ pc' = "salvar"
    /\ UNCHANGED << agora, arquivos, states, entradas, enviados, chamadas, salvo,
                    exit_code, inicio, alertado, relatorios_enviados, falhas, db >>

GeralExcecao ==
    /\ pc = "geral"
    /\ DecisaoGeral[1]
    /\ VariacaoUmidadeFalha
    /\ Excecao
    /\ UNCHANGED << agora, states, entradas, enviados, chamadas, salvo, inicio, alertado,
                    relatorios_enviados, falhas >>

\* a dispatch that records the snapshot whatever the notifier answers
GeralEnviar_sempre_atualiza ==
    /\ pc = "geral"
    /\ DecisaoGeral[1]
    /\ ~VariacaoUmidadeFalha
    /\ \E sucesso \in {TRUE} \cup {FALSE : x \in {1} \cap {IF PodeFalhar THEN 1 ELSE 0}} :
          /\ enviados' = Append(enviados, [classe |-> "geral", nome |-> DecisaoGeral[2],
                                           ok |-> sucesso])
          /\ states' = StateManager_update_general_alert(
                           states, cen.leitura.tem_ins, cen.leitura.umd_ins,
                           cen.leitura.pre_ins, agora)
          /\ falhas' = IF sucesso THEN falhas ELSE falhas + 1
    /\ pc' = "salvar"
    /\ UNCHANGED << agora, arquivos, entradas, chamadas, salvo, exit_code, inicio,
                    alertado, relatorios_enviados, db >>

GeralEnviar ==
    /\ pc = "geral"
    /\ DecisaoGeral[1]
    /\ ~VariacaoUmidadeFalha
    /\ \E sucesso \in {TRUE} \cup {FALSE : x \in {1} \cap {IF PodeFalhar THEN 1 ELSE 0}} :
          /\ enviados' = Append(enviados, [classe |-> "geral", nome |-> DecisaoGeral[2],
                                           ok |-> sucesso])
          /\ states' = IF sucesso
                       THEN StateManager_update_general_alert(
                               states, cen.leitura.tem_ins, cen.leitura.umd_ins,
                               cen.leitura.pre_ins, agora)
                       ELSE states
          /\ falhas' = IF sucesso THEN falhas ELSE falhas + 1
    /\ pc' = "salvar"
    /\ UNCHANGED << agora, arquivos, entradas, chamadas, salvo, exit_code, inicio,
                    alertado, relatorios_enviados, db >>

\* a save that writes the new document without copying the old one
StateManager_save_backup_sem_copia(arquivo, backup) == backup

(***************************************************************************)
(* StateManager.save() and the end of main()                               *)
(***************************************************************************)
\* the backup after the first step of save(): a copy of the existing file
StateManager_save_backup(arquivo, backup) ==
    IF arquivo # None THEN arquivo ELSE backup

\* save() returns True; main() returns 0
Salvar ==
    /\ pc = "salvar"
    /\ db' = "fechada"
    /\ backup_file' = StateManager_save_backup(state_file, backup_file)
    /\ states' = [states EXCEPT !.timestamp = agora]
    /\ state_file' = Some(states')
    /\ salvo' = TRUE
    /\ pc' = "done"
    /\ exit_code' = Some(0)
    /\ UNCHANGED << agora, entradas, enviados, chamadas, inicio, alertado,
                    relatorios_enviados, falhas >>

\* save() catches an exception and returns False, before the backup was
\* written or after it; main() ignores the result and returns 0
SalvarFalha ==
    /\ pc = "salvar"
    /\ db' = "fechada"
    /\ PodeFalhar
    /\ falhas' = falhas + 1
    /\ \E apos_backup \in BOOLEAN :
          backup_file' = IF apos_backup
                         THEN StateManager_save_backup(state_file, backup_file)
                         ELSE backup_file
    /\ salvo' = FALSE
    /\ pc' = "done"
    /\ exit_code' = Some(0)
    /\ UNCHANGED << agora, state_file, states, entradas, enviados, chamadas, inicio,
                    alertado, relatorios_enviados >>

Next ==
    \/ Relogio /\ UNCHANGED externos
    \/ IniciarFalhaConexao /\ UNCHANGED externos
    \/ IniciarSemLeitura /\ UNCHANGED externos
    \/ Iniciar /\ UNCHANGED externos
    \/ Avaliar /\ UNCHANGED externos
    \/ EnviarInteligentes /\ UNCHANGED externos
    \/ EnviarCriticos /\ UNCHANGED externos
    \/ RelatorioSemEnvio /\ UNCHANGED externos
    \/ RelatorioExcecao /\ UNCHANGED externos
    \/ RelatorioEnviar /\ UNCHANGED externos
    \/ GeralSemEnvio /\ UNCHANGED externos
    \/ GeralExcecao /\ UNCHANGED externos
    \/ GeralEnviar /\ UNCHANGED externos
    \/ Salvar /\ UNCHANGED externos
    \/ SalvarFalha /\ UNCHANGED externos

Spec == Init /\ [][Next]_vars

\* the invocation reached Done: the document was written
Done == pc = "done" /\ salvo

TypeOK ==
    /\ pc \in {"idle", "avaliar", "inteligentes", "criticos", "relatorio", "geral",
               "salvar", "done", "failed"}
    /\ agora \in 0..MaxAgora
    /\ alertado \subseteq Tipos
    /\ falhas \in 0..MaxFalhas
    /\ ciclo \in 0..MaxCiclos
    /\ db \in {"sem_conexao", "aberta", "fechada"}

(***************************************************************************)
(* One invocation, from a state file that is missing, unparsable or the    *)
(* one an earlier invocation wrote, with readings around the values of     *)
(* that earlier invocation and rows that hold one NULL column              *)
(***************************************************************************)
MaxHorasGeral == 7

\* the reading of the earlier invocation
LeituraBase == [Amena EXCEPT !.tem_ins = 240, !.umd_ins = 60, !.pre_ins = 10150]

\* a later reading 0.3 degrees lower, in the next temperature zone
LeituraDeriva == [LeituraBase EXCEPT !.tem_ins = 237]

\* the document of a first invocation that read LeituraBase at hour t, with
\* no earlier rows: no critical kind was active and the general alert went
\* out as a first reading
DocGeral(t) ==
    LET d0 == StateManager_create_default_states(t)
        r0 == processar_zonas(LeituraBase, None, 0, d0)
        d1 == AtualizarEstados(d0, r0.estados_atuais, 1, t)
        d2 == StateManager_update_general_alert(
                  d1, LeituraBase.tem_ins, LeituraBase.umd_ins, LeituraBase.pre_ins, t)
    IN  [d2 EXCEPT !.timestamp = t]

\* the document after a second invocation read LeituraDeriva within the hour:
\* no general alert was due, the temperature zone follows the reading and the
\* snapshot stays at LeituraBase
DocDeriva(t) ==
    LET r1 == processar_zonas(LeituraDeriva, None, 0, DocGeral(t))
        d3 == AtualizarEstados(DocGeral(t), r1.estados_atuais, 1, t)
    IN  [d3 EXCEPT !.timestamp = t]

\* readings at, just below and at the limits of variation from LeituraBase
LeiturasGeral ==
    { [leitura |-> [LeituraBase EXCEPT !.tem_ins = tem, !.umd_ins = umd, !.pre_ins = pre],
       leitura_1h |-> None, leitura_3h |-> l3h, acumulado_24h |-> 0] :
        tem \in {240, 244, 245, 235}, umd \in {60, 64, 65}, pre \in {10150, 10169, 10170},
        l3h \in {None, Some([umd_ins |-> None])} }

\* a column of the row get_latest_reading fetched: NULL becomes 0.0
SemNulo(v) == IF v = None THEN 0 ELSE Val(v)

\* get_latest_reading: the row as the dictionary main() evaluates
get_latest_reading(linha) ==
    [tem_ins |-> SemNulo(linha.tem_ins), umd_ins |-> SemNulo(linha.umd_ins),
     ven_vel |-> SemNulo(linha.ven_vel), ven_raj |-> SemNulo(linha.ven_raj),
     chuva |-> SemNulo(linha.chuva), rad_glo |-> SemNulo(linha.rad_glo),
     pre_ins |-> SemNulo(linha.pre_ins)]

\* the row of LeituraBase with light rain: no column is NULL and none is zero
LinhaCompleta ==
    [tem_ins |-> Some(240), umd_ins |-> Some(60), ven_vel |-> Some(20), ven_raj |-> Some(30),
     chuva |-> Some(5), rad_glo |-> Some(500), pre_ins |-> Some(10150)]

\* the column of the row that each domain classifies
ColunaDe(dominio) ==
    CASE dominio = "temperatura" -> "tem_ins"
      [] dominio = "umidade" -> "umd_ins"
      [] dominio = "vento" -> "ven_vel"
      [] dominio = "chuva" -> "chuva"
      [] dominio = "radiacao" -> "rad_glo"
      [] dominio = "pressao" -> "pre_ins"

\* the rows in which the column of one domain is NULL
LinhaNula(dominio) == [LinhaCompleta EXCEPT ![ColunaDe(dominio)] = None]

LinhasNulas == {LinhaNula(d) : d \in Dominios}

LeiturasNulas ==
    { [leitura |-> get_latest_reading(linha), leitura_1h |-> None, leitura_3h |-> None,
       acumulado_24h |-> 0] : linha \in LinhasNulas \cup {LinhaCompleta} }

InitCiclo ==
    /\ pc = "idle"
    /\ agora \in 0..MaxHorasGeral
    /\ state_file \in {None, Corrupto, Some(DocGeral(0)), Some(DocDeriva(0))}
    /\ backup_file = None
    /\ states = StateManager_create_default_states(0)
    /\ cen = SemCenario
    /\ res = SemResultado
    /\ enviados = <<>>
    /\ chamadas = SemChamadas
    /\ salvo = FALSE
    /\ exit_code = None
    /\ arquivo_inicio = None
    /\ backup_inicio = None
    /\ alertado = {}
    /\ chamadas_ant = SemChamadas
    /\ relatorios_enviados = {}
    /\ falhas = 0
    /\ ciclo = MaxCiclos - 1
    /\ db = "fechada"
    /\ ExternosParados

\* the start with a reading around the values of the earlier invocation
IniciarCiclo == IniciarCom(LeiturasGeral)

\* the start with a row that holds at most one NULL column
IniciarLinhaNula == IniciarCom(LeiturasNulas)

NextCiclo ==
    \/ IniciarCiclo /\ UNCHANGED externos
    \/ IniciarLinhaNula /\ UNCHANGED externos
    \/ Avaliar /\ UNCHANGED externos
    \/ EnviarInteligentes /\ UNCHANGED externos
    \/ EnviarCriticos /\ UNCHANGED externos
    \/ RelatorioSemEnvio /\ UNCHANGED externos
    \/ GeralSemEnvio /\ UNCHANGED externos
    \/ GeralExcecao /\ UNCHANGED externos
    \/ GeralEnviar /\ UNCHANGED externos
    \/ Salvar /\ UNCHANGED externos
    \/ SalvarFalha /\ UNCHANGED externos

SpecCiclo == InitCiclo /\ [][NextCiclo]_vars

(***************************************************************************)
(* What the properties observe                                             *)
(***************************************************************************)
\* the entry of kind k in a state file; a missing file has no entry
EntradaCritica(arquivo, k) == StateManager_load(arquivo, 0).alertas_criticos[k]

\* the persisted flag of kind k: a kind with no entry counts as inactive
FlagPersistida(arquivo, k) ==
    EntradaCritica(arquivo, k) # None /\ Val(EntradaCritica(arquivo, k)).ativo

\* the zone state of domain d that the running invocation found on disk
ZonaAntes(d) == StateManager_get_zone_state(StateManager_load(arquivo_inicio, 0), d)

\* the zone of the current reading of domain d
ZonaAgora(d) == classificar(d, ValorAtual(cen.leitura, d))

\* the zone-change events of domain d that processar_zonas returned
Eventos(d) ==
    {i \in 1..Len(res.alertas_inteligentes) : res.alertas_inteligentes[i].zona_nome = d}

\* the messages of a class and name that a step hands to the notifier
Novos(classe, nome) ==
    {i \in (Len(enviados) + 1)..Len(enviados') :
        enviados'[i].classe = classe /\ enviados'[i].nome = nome}

\* positions of the invocation after processar_zonas has run
Avaliado == pc \in {"inteligentes", "criticos", "relatorio", "geral", "salvar", "done"}

\* positions after the intelligent alerts were handed to the notifier
Despachado == pc \in {"criticos", "relatorio", "geral", "salvar", "done"}

(***************************************************************************)
(* Critical alerts                                                         *)
(***************************************************************************)
\* C1: a kind that was alerted successfully and has not been evaluated
\* inactive since is not handed to the notifier again by any later step
C1_AlertaUnico == [][\A k \in alertado : Novos("critico", k) = {}]_vars

QuadroCritico(k, depois) ==
    \/ depois = EntradaCritica(arquivo_inicio, k)
    \/ /\ depois # None /\ Val(depois).ativo
       /\ ~FlagPersistida(arquivo_inicio, k)
       /\ chamadas[k] # None /\ Val(chamadas[k]).ativo
       /\ Entregue("critico", k)
    \/ /\ depois # None /\ ~Val(depois).ativo
       /\ FlagPersistida(arquivo_inicio, k)
       /\ chamadas[k] # None /\ ~Val(chamadas[k]).ativo
       /\ ~Tentado("critico", k)

C4_FalhaNaoSalva ==
    pc = "failed" =>
        /\ exit_code = Some(1)
        /\ ~salvo
        /\ state_file = arquivo_inicio
        /\ backup_file = backup_inicio

\* an exception ended a cycle that had found a state file, updated its
\* document in memory and sent messages
C4_Witness ==
    /\ pc = "failed"
    /\ arquivo_inicio # None
    /\ enviados # <<>>
    /\ states # Val(arquivo_inicio)
    /\ \E d \in Dominios : states.zonas[d] # Val(arquivo_inicio).zonas[d]
    /\ \E k \in Tipos : states.alertas_criticos[k] # Val(arquivo_inicio).alertas_criticos[k]

\* C5: a cycle that ended in Failed handed no message to the notifier
C5_FalhaSemEnvio == pc = "failed" => enviados = <<>>

(***************************************************************************)
(* Zone transitions                                                        *)
(***************************************************************************)
\* C6: a domain persisted in a zone other than the zone of the current value
\* gets exactly one zone-change event, from the persisted zone and value to
\* the current zone and value, and exactly one message
C6_UmEventoPorMudanca ==
    \A d \in Dominios :
        (/\ Avaliado
         /\ ZonaAntes(d).zona # None
         /\ ZonaAntes(d).zona # Some(ZonaAgora(d)))
        => /\ Cardinality(Eventos(d)) = 1
           /\ \A i \in Eventos(d) :
                 res.alertas_inteligentes[i].mudanca =
                    [tipo |-> "mudanca_zona",
                     zona_anterior |-> Val(ZonaAntes(d).zona),
                     zona_atual |-> ZonaAgora(d),
                     valor_anterior |-> ZonaAntes(d).valor,
                     valor_atual |-> ValorAtual(cen.leitura, d)]
           /\ Despachado =>
                 Cardinality({i \in 1..Len(enviados) :
                     enviados[i].classe = "zona" /\ enviados[i].nome = d}) = 1

\* the temperature went from 22.0 to 33.5 degrees, across three zones, and
\* the messages were handed to the notifier
C6_Witness ==
    /\ pc = "criticos"
    /\ ZonaAntes("temperatura").valor = Some(220)
    /\ cen.leitura.tem_ins = 335
    /\ Tentado("zona", "temperatura")

\* C7: a domain with no persisted zone gets no transition message, and a
\* cycle that reaches Done persists the zone and the value of its reading
C7_PrimeiraLeitura ==
    \A d \in Dominios :
        ZonaAntes(d).zona = None =>
            /\ ~Tentado("zona", d)
            /\ Avaliado => Eventos(d) = {}
            /\ Done => /\ Val(state_file).zonas[d].zona = Some(ZonaAgora(d))
                       /\ Val(state_file).zonas[d].valor = Some(ValorAtual(cen.leitura, d))

\* the first cycle of all reached Done having sent a critical alert
C7_Witness ==
    /\ Done
    /\ arquivo_inicio = None
    /\ \A d \in Dominios : Val(state_file).zonas[d].zona # None
    /\ enviados # <<>>

\* C8: a domain whose current value classifies into its persisted zone gets
\* no zone-change event and no transition message
C8_MesmaZona ==
    \A d \in Dominios :
        ZonaAntes(d).zona = Some(ZonaAgora(d)) =>
            /\ ~Tentado("zona", d)
            /\ Avaliado => Eventos(d) = {}

\* every domain moved inside its persisted zone
C8_Witness ==
    /\ Despachado
    /\ \A d \in Dominios :
          /\ ZonaAntes(d).zona = Some(ZonaAgora(d))
          /\ d # "chuva" => ZonaAntes(d).valor # Some(ValorAtual(cen.leitura, d))

C10_RelatorioUmaVezPorDia ==
    [][\A tipo \in {"bom_dia", "boa_noite"} :
          (\E i \in Novos("relatorio", tipo) : enviados'[i].ok)
          => << tipo, Dia(agora) >> \notin relatorios_enviados]_vars

\* the last-report time of a type in a document
UltimoRelatorio(st, tipo) ==
    IF tipo = "bom_dia" THEN st.relatorios.ultimo_bom_dia ELSE st.relatorios.ultimo_boa_noite

\* C11: once a report of a type was handed to the notifier, the document of
\* the cycle holds today's date for that type, whatever the notifier answered
C11_RelatorioRegistrado ==
    \A tipo \in {"bom_dia", "boa_noite"} :
        (pc \in {"geral", "salvar", "done"} /\ Tentado("relatorio", tipo))
        => /\ UltimoRelatorio(states, tipo) # None
           /\ Dia(Val(UltimoRelatorio(states, tipo))) = Dia(agora)

(***************************************************************************)
(* The general alert                                                       *)
(***************************************************************************)
\* the last dispatched snapshot that the running invocation found on disk
SnapshotAntes == StateManager_load(arquivo_inicio, 0).alerta_geral

\* the causes of a general alert, in the order they are checked, for the
\* current reading against that snapshot
CausasGeral ==
    LET g == SnapshotAntes
        existe == g.ultima_temp # None
    IN  << [nome |-> "primeira_leitura", vale |-> ~existe],
           [nome |-> "temp",
            vale |-> existe /\ Abs(cen.leitura.tem_ins - Val(g.ultima_temp)) >= LIMITE_TEMP],
           [nome |-> "umid",
            vale |-> existe /\ Abs(cen.leitura.umd_ins - Val(g.ultima_umid)) >= LIMITE_UMIDADE],
           [nome |-> "pressao",
            vale |-> existe /\ Abs(cen.leitura.pre_ins - Val(g.ultima_pressao)) >= LIMITE_PRESSAO],
           [nome |-> "periodica",
            vale |-> existe /\ g.ultimo_envio # None
                     /\ agora - Val(g.ultimo_envio) >= HORAS_ATUALIZACAO] >>

\* the positions of the causes that are satisfied
Satisfeitas == {i \in 1..Len(CausasGeral) : CausasGeral[i].vale}

\* the first satisfied cause
PrimeiraCausa == CausasGeral[CHOOSE i \in Satisfeitas : \A j \in Satisfeitas : i <= j].nome

\* the general-alert messages the invocation handed to the notifier
MensagensGeral == {i \in 1..Len(enviados) : enviados[i].classe = "geral"}

\* C12: the decision fires exactly when a cause is satisfied against the
\* snapshot found on disk, its reason is the first satisfied cause, and the
\* one message handed to the notifier carries that reason
C12_PrimeiraCausaSatisfeita ==
    /\ pc = "geral" =>
          /\ DecisaoGeral[1] = (Satisfeitas # {})
          /\ DecisaoGeral[1] => DecisaoGeral[2] = PrimeiraCausa
          /\ MensagensGeral = {}
    /\ pc \in {"salvar", "done"} =>
          /\ (MensagensGeral # {}) = (Satisfeitas # {})
          /\ Cardinality(MensagensGeral) <= 1
          /\ \A i \in MensagensGeral : enviados[i].nome = PrimeiraCausa

\* two causes hold at once against a snapshot that is not the last reading:
\* the temperature is within the limit of the last reading and at the limit
\* of the snapshot, and the message went out with the first cause
C12_Witness ==
    /\ pc = "done"
    /\ arquivo_inicio = Some(DocDeriva(0))
    /\ {2, 3} \subseteq Satisfeitas
    /\ Entregue("geral", "temp")
    /\ Abs(cen.leitura.tem_ins - LeituraDeriva.tem_ins) < LIMITE_TEMP

\* C13: with the three deltas below their limits, the general alert fires
\* exactly when more than HORAS_ATUALIZACAO hours have passed since the
\* snapshot was sent, and then as a periodic refresh
C13_PeriodicaAposSeisHoras ==
    (/\ pc = "geral"
     /\ SnapshotAntes.ultima_temp # None
     /\ SnapshotAntes.ultimo_envio # None
     /\ Satisfeitas \cap {2, 3, 4} = {})
    => /\ DecisaoGeral[1] = (agora - Val(SnapshotAntes.ultimo_envio) > HORAS_ATUALIZACAO)
       /\ DecisaoGeral[1] => DecisaoGeral[2] = "periodica"

\* the snapshot update_general_alert writes for a reading at hour t
SnapshotDe(leitura, t) ==
    [ultima_temp |-> Some(leitura.tem_ins), ultima_umid |-> Some(leitura.umd_ins),
     ultima_pressao |-> Some(leitura.pre_ins), ultimo_envio |-> Some(t)]

\* the step hands a general alert to the notifier and the notifier accepts it
GeralAceito ==
    \E i \in (Len(enviados) + 1)..Len(enviados') :
        enviados'[i].classe = "geral" /\ enviados'[i].ok

Etapa(p) ==
    CASE p = "idle" -> 0
      [] p = "avaliar" -> 1
      [] p = "inteligentes" -> 2
      [] p = "criticos" -> 3
      [] p = "relatorio" -> 4
      [] p = "geral" -> 5
      [] p = "salvar" -> 6
      [] p \in {"done", "failed"} -> 7

\* the class of message each position hands to the notifier
ClasseDe(p) ==
    CASE p = "inteligentes" -> "zona"
      [] p = "criticos" -> "critico"
      [] p = "relatorio" -> "relatorio"
      [] p = "geral" -> "geral"
      [] OTHER -> "nenhuma"

\* C15: inside an invocation every step moves forward, so no step is retried
\* and the one terminal position reached is left only by the next invocation;
\* the document is the one loaded at the start; each position hands only its
\* own class of message to the notifier, in the order zone, critical, report,
\* general; the files change only in the step from Persisting to Done, which
\* dispatches nothing, and nothing is dispatched after it
C15_UmaPassagem ==
    [][ /\ ciclo' = ciclo => (pc' = pc \/ (~Terminou /\ Etapa(pc') > Etapa(pc)))
        /\ ciclo' # ciclo
           => /\ Terminou
              /\ ciclo' = ciclo + 1
              /\ pc' \in {"avaliar", "failed"}
              /\ enviados' = <<>>
              /\ pc' = "avaliar" => states' = StateManager_load(state_file, agora)
        /\ (ciclo' = ciclo /\ pc' = pc) => (Terminou /\ UNCHANGED << arquivos, enviados >>)
        /\ (ciclo' = ciclo /\ enviados' # enviados)
           => /\ Len(enviados') > Len(enviados)
              /\ SubSeq(enviados', 1, Len(enviados)) = enviados
              /\ \A i \in (Len(enviados) + 1)..Len(enviados') :
                    enviados'[i].classe = ClasseDe(pc)
        /\ (state_file' # state_file \/ backup_file' # backup_file)
           => /\ pc = "salvar"
              /\ pc' = "done"
              /\ enviados' = enviados
        /\ (pc' \in {"done", "failed"}) = (exit_code' # None) ]_vars

\* an invocation that dispatched a message of each of three classes wrote
\* the file once, over the file of an earlier invocation
C15_Witness ==
    /\ Done
    /\ arquivo_inicio # None
    /\ state_file # arquivo_inicio
    /\ backup_file = arquivo_inicio
    /\ \E i, j, k \in 1..Len(enviados) :
          /\ i < j
          /\ j < k
          /\ enviados[i].classe = "zona"
          /\ enviados[j].classe = "critico"
          /\ enviados[k].classe = "geral"

\* C16: exit code 0 only for an invocation that reached Done with its document
\* written to the state file; exit code 1 for every invocation that failed,
\* a failed write of the state file included
C16_ExitZeroSoPersistido ==
    /\ exit_code = Some(0) => (pc = "done" /\ salvo /\ state_file = Some(states))
    /\ (pc = "failed" \/ (pc = "done" /\ ~salvo)) => exit_code = Some(1)

(***************************************************************************)
(* Notifier failures                                                       *)
(***************************************************************************)
\* the step hands a message to the notifier and the notifier refuses it
NotificadorFalhou ==
    \E i \in (Len(enviados) + 1)..Len(enviados') : ~enviados'[i].ok

\* every message the invocation had cause to send up to its position was
\* handed to the notifier: one per zone event, in their order; one per
\* critical kind that is active with its flag inactive on disk; the general
\* alert when a cause is satisfied at the hour of the invocation
TodosTentados ==
    /\ Despachado
       => /\ Len(enviados) >= Len(res.alertas_inteligentes)
          /\ \A i \in 1..Len(res.alertas_inteligentes) :
                /\ enviados[i].classe = "zona"
                /\ enviados[i].nome = res.alertas_inteligentes[i].zona_nome
    /\ pc \in {"relatorio", "geral", "salvar", "done"}
       => \A k \in Tipos :
             Tentado("critico", k)
                = (CriticosAtivos(res.alertas_criticos)[k] /\ ~FlagPersistida(arquivo_inicio, k))
    /\ pc = "salvar" => (MensagensGeral # {}) = (Satisfeitas # {})

\* C17: a step in which the notifier refuses a message moves on to the next
\* position, never to Failed; an invocation under way fails only where a
\* report or the humidity variation raises, in a step that sends nothing; and
\* whatever the notifier answered, every message the invocation had cause to
\* send was handed to it
C17_FalhaIsolada ==
    [][ /\ NotificadorFalhou => (pc' # "failed" /\ Etapa(pc') = Etapa(pc) + 1)
        /\ (~Terminou /\ pc' = "failed")
           => /\ enviados' = enviados
              /\ \/ pc = "relatorio" /\ RelatorioPermitido
                 \/ pc = "geral" /\ VariacaoUmidadeFalha
        /\ TodosTentados' ]_vars

\* the notifier refused a zone message; the zone message after it, a critical
\* alert and the general alert were still handed over and the document saved
C17_Witness ==
    /\ Done
    /\ \E i, j \in 1..Len(enviados) :
          /\ i < j
          /\ enviados[i].classe = "zona"
          /\ ~enviados[i].ok
          /\ enviados[j].classe = "zona"
    /\ \E i \in 1..Len(enviados) : enviados[i].classe = "critico"
    /\ MensagensGeral # {}

(***************************************************************************)
(* Missing inputs                                                          *)
(***************************************************************************)
\* C18: an invocation that obtained no current reading is in Failed with exit
\* code 1, evaluated nothing, handed nothing to the notifier and left the
\* state file and the backup file as it found them
C18_SemLeituraAborta ==
    (cen = SemCenario /\ pc # "idle")
    => /\ pc = "failed"
       /\ exit_code = Some(1)
       /\ res = SemResultado
       /\ enviados = <<>>
       /\ chamadas = SemChamadas
       /\ state_file = arquivo_inicio
       /\ backup_file = backup_inicio

\* the database answered but held no reading, with a state file on disk
C18_Witness ==
    /\ cen = SemCenario
    /\ pc = "failed"
    /\ db = "fechada"
    /\ arquivo_inicio # None
    /\ state_file = arquivo_inicio

\* the bootstrap document: every zone null, no critical flag, no snapshot of
\* the general alert, no report date
Bootstrap(st) ==
    /\ \A d \in Dominios :
          st.zonas[d].zona = None /\ st.zonas[d].valor = None
    /\ \A k \in Tipos : st.alertas_criticos[k] = None
    /\ st.alerta_geral.ultima_temp = None
    /\ st.alerta_geral.ultimo_envio = None
    /\ st.relatorios.ultimo_bom_dia = None
    /\ st.relatorios.ultimo_boa_noite = None

CriticosDe(dominio) ==
    CASE dominio = "temperatura" -> {"calor_extremo", "frio_extremo", "mudanca_brusca"}
      [] dominio = "umidade" -> {"ar_muito_seco"}
      [] dominio = "vento" -> {"vento_forte"}
      [] dominio = "chuva" -> {"chuva_intensa", "chuva_acumulada"}
      [] dominio = "radiacao" -> {"uv_extremo"}
      [] dominio = "pressao" -> {"queda_brusca", "pressao_muito_baixa"}

\* C20: when the column of a domain is NULL in the row of the current
\* reading, the invocation does not fail and, once evaluated, holds no zone
\* state, no zone event and no critical kind for that domain, and leaves the
\* zone state of that domain as the invocation found it
C20_DominioNuloIgnorado ==
    \A d \in Dominios :
        (pc # "idle" /\ cen.leitura = get_latest_reading(LinhaNula(d)))
        => /\ pc # "failed"
           /\ Avaliado
              => /\ res.estados_atuais[d] = None
                 /\ Eventos(d) = {}
                 /\ \A k \in CriticosDe(d) : ~CriticosAtivos(res.alertas_criticos)[k]
                 /\ StateManager_get_zone_state(states, d) = ZonaAntes(d)

(***************************************************************************)
(* The state file and its backup                                           *)
(***************************************************************************)
\* C21: a successful save leaves the new document in the state file and, when
\* a state file existed, its former content in the backup file; so after an
\* invocation that found a state file and saved, the backup file is the file
\* the invocation found
C21_BackupUmCicloAtras ==
    [][ /\ (pc = "salvar" /\ salvo')
           => /\ state_file' = Some(states')
              /\ state_file # None => backup_file' = state_file
              /\ state_file = None => backup_file' = backup_file
        /\ (pc' = "done" /\ salvo' /\ arquivo_inicio' # None)
           => backup_file' = arquivo_inicio' ]_vars

\* the second successful save: the backup holds the document of the first
\* invocation and the state file a later one
C21_Witness ==
    /\ Done
    /\ ciclo = 2
    /\ backup_file # None
    /\ backup_file = arquivo_inicio
    /\ Val(state_file).timestamp > Val(backup_file).timestamp

(***************************************************************************)
(* json.dump and json.load of the document: None is written as null, a     *)
(* number as its decimal text, a time as its ISO text, a critical kind     *)
(* that was never updated has no key                                       *)
(***************************************************************************)
\* the units of the stored value of each domain per whole unit of the text
Escala(dominio) == IF dominio \in {"umidade", "radiacao"} THEN 1 ELSE 10

JsonNull == [json |-> "null"]

\* a number written without its sign
JsonNumero_sem_sinal(v, escala) ==
    [json |-> "number", sinal |-> "", inteiro |-> Abs(v) \div escala,
     fracao |-> Abs(v) % escala]

\* float.__repr__: sign, integer part, fraction
JsonNumero(v, escala) ==
    [json |-> "number", sinal |-> IF v < 0 THEN "-" ELSE "",
     inteiro |-> Abs(v) \div escala, fracao |-> Abs(v) % escala]

\* float(): the number of a decimal text
NumeroDe(j, escala) ==
    (IF j.sinal = "-" THEN -1 ELSE 1) * (j.inteiro * escala + j.fracao)

JsonTexto(s) == [json |-> "string", texto |-> s]

\* datetime.isoformat(): date and hour
JsonData(t) == [json |-> "string", dia |-> Dia(t), hora |-> t % HorasPorDia]

\* the time an ISO text names
DataDe(j) == j.dia * HorasPorDia + j.hora

JsonNumeroOpcional(o, escala) == IF o = None THEN JsonNull ELSE JsonNumero(Val(o), escala)

JsonDataOpcional(o) == IF o = None THEN JsonNull ELSE JsonData(Val(o))

NumeroOpcionalDe(j, escala) == IF j.json = "null" THEN None ELSE Some(NumeroDe(j, escala))

DataOpcionalDe(j) == IF j.json = "null" THEN None ELSE Some(DataDe(j))

\* json.dump(self.states, f)
json_dump(st) ==
    [ timestamp |-> JsonData(st.timestamp),
      zonas |-> [d \in Dominios |->
          [zona |-> IF st.zonas[d].zona = None THEN JsonNull
                    ELSE JsonTexto(Val(st.zonas[d].zona)),
           valor |-> JsonNumeroOpcional(st.zonas[d].valor, Escala(d)),
           ultima_mudanca |-> JsonDataOpcional(st.zonas[d].ultima_mudanca)]],
      alertas_criticos |-> [k \in {x \in Tipos : st.alertas_criticos[x] # None} |->
          [ativo |-> [json |-> IF Val(st.alertas_criticos[k]).ativo THEN "true" ELSE "false"],
           ultima_mudanca |-> JsonData(Val(st.alertas_criticos[k]).ultima_mudanca)]],
      alerta_geral |->
          [ultima_temp |-> JsonNumeroOpcional(st.alerta_geral.ultima_temp, 10),
           ultima_umid |-> JsonNumeroOpcional(st.alerta_geral.ultima_umid, 1),
           ultima_pressao |-> JsonNumeroOpcional(st.alerta_geral.ultima_pressao, 10),
           ultimo_envio |-> JsonDataOpcional(st.alerta_geral.ultimo_envio)],
      relatorios |->
          [ultimo_bom_dia |-> JsonDataOpcional(st.relatorios.ultimo_bom_dia),
           ultimo_boa_noite |-> JsonDataOpcional(st.relatorios.ultimo_boa_noite)] ]

\* json.load(f)
json_load(j) ==
    [ timestamp |-> DataDe(j.timestamp),
      zonas |-> [d \in Dominios |->
          [zona |-> IF j.zonas[d].zona.json = "null" THEN None
                    ELSE Some(j.zonas[d].zona.texto),
           valor |-> NumeroOpcionalDe(j.zonas[d].valor, Escala(d)),
           ultima_mudanca |-> DataOpcionalDe(j.zonas[d].ultima_mudanca)]],
      alertas_criticos |-> [k \in Tipos |->
          IF k \in DOMAIN j.alertas_criticos
          THEN Some([ativo |-> j.alertas_criticos[k].ativo.json = "true",
                     ultima_mudanca |-> DataDe(j.alertas_criticos[k].ultima_mudanca)])
          ELSE None],
      alerta_geral |->
          [ultima_temp |-> NumeroOpcionalDe(j.alerta_geral.ultima_temp, 10),
           ultima_umid |-> NumeroOpcionalDe(j.alerta_geral.ultima_umid, 1),
           ultima_pressao |-> NumeroOpcionalDe(j.alerta_geral.ultima_pressao, 10),
           ultimo_envio |-> DataOpcionalDe(j.alerta_geral.ultimo_envio)],
      relatorios |->
          [ultimo_bom_dia |-> DataOpcionalDe(j.relatorios.ultimo_bom_dia),
           ultimo_boa_noite |-> DataOpcionalDe(j.relatorios.ultimo_boa_noite)] ]

Consultas1h(valores, diferencas) ==
    {<<"nenhuma", 0>>, <<"nula", 0>>}
    \cup {<<"valor", v>> : v \in valores} \cup {<<"diferenca", q>> : q \in diferencas}

\* the row that query gives, with the columns processar_zonas reads; the
\* other columns are those of LeituraBase
Linha1hDe(coluna, valor_atual, consulta) ==
    LET base == [tem_ins |-> Some(LeituraBase.tem_ins), rad_glo |-> Some(LeituraBase.rad_glo),
                 pre_ins |-> Some(LeituraBase.pre_ins)]
    IN  CASE consulta[1] = "nenhuma" -> None
          [] consulta[1] = "nula" -> Some([base EXCEPT ![coluna] = None])
          [] consulta[1] = "valor" -> Some([base EXCEPT ![coluna] = Some(consulta[2])])
          [] OTHER -> Some([base EXCEPT ![coluna] = Some(valor_atual + consulta[2])])

\* temperatures at and next to every limit of the comfort table and of the
\* critical checks; the row one hour earlier is missing, holds no
\* temperature, holds 0.0 degrees, or differs by 0, 4.9, 5.0 or 5.1 degrees
LeiturasTemperatura ==
    { [leitura |-> [LeituraBase EXCEPT !.tem_ins = tem],
       leitura_1h |-> Linha1hDe("tem_ins", tem, c), leitura_3h |-> None, acumulado_24h |-> 0] :
        tem \in {TEMP_BAIXA - 1, TEMP_BAIXA, CONFORTO_FRIO - 1, CONFORTO_FRIO,
                 CONFORTO_FRESCO - 1, CONFORTO_FRESCO, CONFORTO_IDEAL - 1, CONFORTO_IDEAL,
                 CONFORTO_MORNO - 1, CONFORTO_MORNO, CONFORTO_QUENTE - 1, CONFORTO_QUENTE,
                 CONFORTO_MUITO_QUENTE - 1, CONFORTO_MUITO_QUENTE, CONFORTO_MUITO_QUENTE + 1},
        c \in Consultas1h({0}, {0, MUDANCA_BRUSCA_LIMITE - 1, MUDANCA_BRUSCA_LIMITE,
                                MUDANCA_BRUSCA_LIMITE + 1, 1 - MUDANCA_BRUSCA_LIMITE,
                                -MUDANCA_BRUSCA_LIMITE, -MUDANCA_BRUSCA_LIMITE - 1}) }

\* humidities at and next to every limit of the table and of the critical
\* check
LeiturasUmidade ==
    { [leitura |-> [LeituraBase EXCEPT !.umd_ins = umd],
       leitura_1h |-> None, leitura_3h |-> None, acumulado_24h |-> 0] :
        umd \in {UMID_CRITICA - 1, UMID_CRITICA, UMID_MUITO_SECA - 1, UMID_MUITO_SECA,
                 UMID_SECA - 1, UMID_SECA, UMID_BOA - 1, UMID_BOA, UMID_OTIMA - 1, UMID_OTIMA,
                 UMID_ALTA - 1, UMID_ALTA} }

\* sustained winds at and next to every limit of the table, with gusts at
\* and next to the critical limit
LeiturasVento ==
    { [leitura |-> [LeituraBase EXCEPT !.ven_vel = vel, !.ven_raj = raj],
       leitura_1h |-> None, leitura_3h |-> None, acumulado_24h |-> 0] :
        vel \in {0, VENTO_CALMO - 1, VENTO_CALMO, VENTO_ARAGEM - 1, VENTO_ARAGEM,
                 VENTO_BRISA_LEVE - 1, VENTO_BRISA_LEVE,
                 VENTO_BRISA_MODERADA - 1, VENTO_BRISA_MODERADA,
                 VENTO_BRISA_FRESCA - 1, VENTO_BRISA_FRESCA,
                 VENTO_MODERADO - 1, VENTO_MODERADO, VENTO_FORTE - 1, VENTO_FORTE},
        raj \in {0, LIMITE_RAJADA_CRITICA - 1, LIMITE_RAJADA_CRITICA,
                 LIMITE_RAJADA_CRITICA + 1} }

\* rain at and next to every limit of the table, with 24-hour sums at and
\* next to the accumulation limit
LeiturasChuva ==
    { [leitura |-> [LeituraBase EXCEPT !.chuva = c],
       leitura_1h |-> None, leitura_3h |-> None, acumulado_24h |-> a] :
        c \in {0, 1, CHUVA_GAROA - 1, CHUVA_GAROA, CHUVA_FRACA - 1, CHUVA_FRACA,
               CHUVA_MODERADA - 1, CHUVA_MODERADA, CHUVA_FORTE - 1, CHUVA_FORTE,
               CHUVA_FORTE + 1},
        a \in {0, CHUVA_ACUMULADA_ALERTA - 1, CHUVA_ACUMULADA_ALERTA,
               CHUVA_ACUMULADA_ALERTA + 1} }

\* radiations at and next to every limit of the table, negative included;
\* the row one hour earlier is missing, holds no radiation, or holds one
\* below, at or above zero
LeiturasRadiacao ==
    { [leitura |-> [LeituraBase EXCEPT !.rad_glo = rad],
       leitura_1h |-> Linha1hDe("rad_glo", rad, c), leitura_3h |-> None, acumulado_24h |-> 0] :
        rad \in {-5, 0, 1, RAD_CREPUSCULO - 1, RAD_CREPUSCULO, RAD_BAIXA - 1, RAD_BAIXA,
                 RAD_MODERADA - 1, RAD_MODERADA, RAD_ALTA - 1, RAD_ALTA,
                 RAD_MUITO_ALTA - 1, RAD_MUITO_ALTA, RAD_MUITO_ALTA + 1},
        c \in Consultas1h({-5, 0, 1, 500}, {}) }

\* pressures around the zone limits; the row one hour earlier is missing,
\* holds no pressure, or holds the same pressure or one 4.9 to 6.0 hPa higher
LeiturasPressao ==
    { [leitura |-> [LeituraBase EXCEPT !.pre_ins = pre],
       leitura_1h |-> Linha1hDe("pre_ins", pre, c), leitura_3h |-> None, acumulado_24h |-> 0] :
        pre \in {PRESSAO_MUITO_BAIXA - 10, PRESSAO_MUITO_BAIXA - 1, PRESSAO_MUITO_BAIXA,
                 PRESSAO_BAIXA - 1, PRESSAO_BAIXA, PRESSAO_NORMAL - 1, PRESSAO_NORMAL,
                 PRESSAO_ALTA - 1, PRESSAO_ALTA},
        c \in Consultas1h({}, {0, -QUEDA_BRUSCA_LIMITE - 1, -QUEDA_BRUSCA_LIMITE,
                               -QUEDA_BRUSCA_LIMITE + 1, -QUEDA_BRUSCA_LIMITE + 10}) }

\* every absolute critical check at its limit at once, and one step past it
LeiturasLimite ==
    { [leitura |-> [LeituraBase EXCEPT !.tem_ins = CONFORTO_MUITO_QUENTE,
                                       !.umd_ins = UMID_CRITICA,
                                       !.ven_raj = LIMITE_RAJADA_CRITICA,
                                       !.rad_glo = RAD_EXTREMA],
       leitura_1h |-> None, leitura_3h |-> None, acumulado_24h |-> 0],
      [leitura |-> [LeituraBase EXCEPT !.tem_ins = CONFORTO_MUITO_QUENTE + 1,
                                       !.umd_ins = UMID_CRITICA - 1,
                                       !.ven_raj = LIMITE_RAJADA_CRITICA + 1,
                                       !.rad_glo = RAD_EXTREMA - 1],
       leitura_1h |-> None, leitura_3h |-> None, acumulado_24h |-> 0] }

\* the invocation starts at hour 0 with no state file or with the file an
\* earlier invocation wrote for LeituraBase
InitZonas ==
    /\ pc = "idle"
    /\ agora = 0
    /\ state_file \in {None, Some(DocGeral(0))}
    /\ backup_file = None
    /\ states = StateManager_create_default_states(0)
    /\ cen = SemCenario
    /\ res = SemResultado
    /\ enviados = <<>>
    /\ chamadas = SemChamadas
    /\ salvo = FALSE
    /\ exit_code = None
    /\ arquivo_inicio = None
    /\ backup_inicio = None
    /\ alertado = {}
    /\ chamadas_ant = SemChamadas
    /\ relatorios_enviados = {}
    /\ falhas = 0
    /\ ciclo = MaxCiclos - 1
    /\ db = "fechada"
    /\ ExternosParados

IniciarTemperatura == IniciarCom(LeiturasTemperatura)

IniciarUmidade == IniciarCom(LeiturasUmidade)

IniciarVento == IniciarCom(LeiturasVento)

IniciarChuva == IniciarCom(LeiturasChuva)

IniciarRadiacao == IniciarCom(LeiturasRadiacao)

IniciarPressao == IniciarCom(LeiturasPressao)

IniciarLimite == IniciarCom(LeiturasLimite)

NextZonas ==
    \/ IniciarTemperatura /\ UNCHANGED externos
    \/ IniciarUmidade /\ UNCHANGED externos
    \/ IniciarVento /\ UNCHANGED externos
    \/ IniciarChuva /\ UNCHANGED externos
    \/ IniciarRadiacao /\ UNCHANGED externos
    \/ IniciarPressao /\ UNCHANGED externos
    \/ IniciarLimite /\ UNCHANGED externos
    \/ Avaliar /\ UNCHANGED externos
    \/ EnviarInteligentes /\ UNCHANGED externos
    \/ EnviarCriticos /\ UNCHANGED externos
    \/ RelatorioSemEnvio /\ UNCHANGED externos
    \/ RelatorioExcecao /\ UNCHANGED externos
    \/ RelatorioEnviar /\ UNCHANGED externos
    \/ GeralSemEnvio /\ UNCHANGED externos
    \/ GeralEnviar /\ UNCHANGED externos
    \/ Salvar /\ UNCHANGED externos
    \/ SalvarFalha /\ UNCHANGED externos

SpecZonas == InitZonas /\ [][NextZonas]_vars

\* the critical kinds processar_zonas reported
Ativo(k) == CriticosAtivos(res.alertas_criticos)[k]

\* the 1-hour pressure delta main() passes to verificar_critico
Delta1h == get_pressure_variation(cen.leitura, cen.leitura_1h)

\* the zone of domain d changed from the zone the invocation found on disk
ZonaMudou(d) == ZonaAntes(d).zona # None /\ Val(ZonaAntes(d).zona) # ZonaAgora(d)

\* C23: the two pressure criticals are never active together, a drop below
\* the limit gives queda_brusca alone whatever the pressure, and the pressure
\* zone event depends on the zones only: it is produced, and handed to the
\* notifier, exactly when the zone changed, with or without a critical
C23_PressaoZonaECritico ==
    /\ Avaliado
       => /\ ~(Ativo("queda_brusca") /\ Ativo("pressao_muito_baixa"))
          /\ Delta1h < QUEDA_BRUSCA_LIMITE
             => (Ativo("queda_brusca") /\ ~Ativo("pressao_muito_baixa"))
          /\ (Eventos("pressao") # {}) = ZonaMudou("pressao")
    /\ pc \in {"relatorio", "geral", "salvar", "done"}
       => /\ Tentado("zona", "pressao") = ZonaMudou("pressao")
          /\ Tentado("critico", "queda_brusca") = Ativo("queda_brusca")
          /\ Tentado("critico", "pressao_muito_baixa") = Ativo("pressao_muito_baixa")

\* zone NORMAL at 1015 hPa on disk, 1004 hPa now, 6.0 hPa less than an hour
\* ago: the zone change to MUITO_BAIXA and queda_brusca went out, and
\* pressao_muito_baixa did not
C23_Witness ==
    /\ pc = "relatorio"
    /\ ZonaAntes("pressao").zona = Some("NORMAL")
    /\ ZonaAntes("pressao").valor = Some(10150)
    /\ cen.leitura.pre_ins = 10040
    /\ Delta1h = -60
    /\ \E i \in Eventos("pressao") :
          /\ res.alertas_inteligentes[i].mudanca.zona_anterior = "NORMAL"
          /\ res.alertas_inteligentes[i].mudanca.zona_atual = "MUITO_BAIXA"
    /\ Entregue("zona", "pressao")
    /\ Entregue("critico", "queda_brusca")
    /\ ~Tentado("critico", "pressao_muito_baixa")

\* C24 as stated: queda_brusca is active for every 1-hour delta <= -5.0 hPa,
\* and pressao_muito_baixa exactly when that does not hold and the pressure
\* is below 1005 hPa
C24_Original ==
    Avaliado
    => /\ Ativo("queda_brusca") = (Delta1h <= QUEDA_BRUSCA_LIMITE)
       /\ Ativo("pressao_muito_baixa")
          = (~(Delta1h <= QUEDA_BRUSCA_LIMITE) /\ cen.leitura.pre_ins < PRESSAO_MUITO_BAIXA)

\* C24: queda_brusca is active exactly when the 1-hour delta is below -5.0 hPa
\* (a delta of exactly -5.0 is not a sharp drop), and pressao_muito_baixa
\* exactly when the delta is -5.0 or more and the pressure is below 1005 hPa
C24_QuedaEstrita ==
    Avaliado
    => /\ Ativo("queda_brusca") = (Delta1h < QUEDA_BRUSCA_LIMITE)
       /\ Ativo("pressao_muito_baixa")
          = (Delta1h >= QUEDA_BRUSCA_LIMITE /\ cen.leitura.pre_ins < PRESSAO_MUITO_BAIXA)

\* a drop of exactly 5.0 hPa to a pressure below 1005 hPa: no sharp drop, and
\* the low pressure is critical
C24_Witness ==
    /\ Avaliado
    /\ Delta1h = QUEDA_BRUSCA_LIMITE
    /\ cen.leitura.pre_ins < PRESSAO_MUITO_BAIXA
    /\ ~Ativo("queda_brusca")
    /\ Ativo("pressao_muito_baixa")

C26_MudancaBrusca ==
    LET anterior == IF cen.leitura_1h = None THEN None ELSE Val(cen.leitura_1h).tem_ins
    IN  Avaliado
        => Ativo("mudanca_brusca")
           = (anterior # None
              /\ Abs(cen.leitura.tem_ins - Val(anterior)) >= MUDANCA_BRUSCA_LIMITE)

Tabela(d) ==
    CASE d = "temperatura" ->
            [limites |-> << <<CONFORTO_FRIO, "FRIO">>, <<CONFORTO_FRESCO, "FRESCO">>,
                            <<CONFORTO_IDEAL, "IDEAL">>, <<CONFORTO_MORNO, "MORNO">>,
                            <<CONFORTO_QUENTE, "QUENTE">>,
                            <<CONFORTO_MUITO_QUENTE, "MUITO_QUENTE">> >>,
             ultima |-> "EXTREMO"]
      [] d = "umidade" ->
            [limites |-> << <<UMID_MUITO_SECA, "MUITO_SECA">>, <<UMID_SECA, "SECA">>,
                            <<UMID_BOA, "BOA">>, <<UMID_OTIMA, "OTIMA">>,
                            <<UMID_ALTA, "ALTA">> >>,
             ultima |-> "MUITO_ALTA"]
      [] d = "vento" ->
            [limites |-> << <<VENTO_CALMO, "CALMO">>, <<VENTO_ARAGEM, "ARAGEM">>,
                            <<VENTO_BRISA_LEVE, "BRISA_LEVE">>,
                            <<VENTO_BRISA_MODERADA, "BRISA_MODERADA">>,
                            <<VENTO_BRISA_FRESCA, "BRISA_FRESCA">>,
                            <<VENTO_MODERADO, "MODERADO">>, <<VENTO_FORTE, "FORTE">> >>,
             ultima |-> "VENTANIA"]
      [] d = "chuva" ->
            [limites |-> << <<1, "SEM_CHUVA">>, <<CHUVA_GAROA, "GAROA">>,
                            <<CHUVA_FRACA, "FRACA">>, <<CHUVA_MODERADA, "MODERADA">>,
                            <<CHUVA_FORTE, "FORTE">> >>,
             ultima |-> "MUITO_FORTE"]
      [] d = "radiacao" ->
            [limites |-> << <<1, "NOITE">>, <<RAD_CREPUSCULO, "CREPUSCULO">>,
                            <<RAD_BAIXA, "BAIXA">>, <<RAD_MODERADA, "MODERADA">>,
                            <<RAD_ALTA, "ALTA">>, <<RAD_MUITO_ALTA, "MUITO_ALTA">> >>,
             ultima |-> "EXTREMA"]
      [] d = "pressao" ->
            [limites |-> << <<PRESSAO_MUITO_BAIXA, "MUITO_BAIXA">>, <<PRESSAO_BAIXA, "BAIXA">>,
                            <<PRESSAO_NORMAL, "NORMAL">>, <<PRESSAO_ALTA, "ALTA">> >>,
             ultima |-> "MUITO_ALTA"]

\* the zone of the table whose half-open interval holds v: the first zone
\* whose upper bound is above v, a value equal to a bound falling in the
\* zone above it
ZonaDaTabela(d, v) ==
    LET t == Tabela(d)
        acima == {i \in 1..Len(t.limites) : v < t.limites[i][1]}
    IN  IF acima = {} THEN t.ultima
        ELSE t.limites[CHOOSE i \in acima : \A j \in acima : i <= j][2]

ZonaRadiacaoObtida ==
    IF res.estados_atuais["radiacao"] # None
    THEN Some(Val(res.estados_atuais["radiacao"]).zona)
    ELSE ZonaAntes("radiacao").zona

C30_TransicaoDiaNoite ==
    LET v == cen.leitura.rad_glo
        anterior == IF cen.leitura_1h = None THEN None ELSE Val(cen.leitura_1h).rad_glo
    IN  /\ Avaliado
           => /\ (res.transicao = Some("bom_dia"))
                 = (anterior # None /\ Val(anterior) <= 0 /\ v > 0)
              /\ (res.transicao = Some("boa_noite"))
                 = (anterior # None /\ Val(anterior) > 0 /\ v <= 0)
              /\ res.transicao \in {None, Some("bom_dia"), Some("boa_noite")}
              /\ anterior = None => res.transicao = None
        /\ ~(Tentado("relatorio", "bom_dia") /\ Tentado("relatorio", "boa_noite"))
        /\ \A r \in {"bom_dia", "boa_noite"} :
              Tentado("relatorio", r) => res.transicao = Some(r)

\* the radiation was 1 an hour ago and is 0 now: boa_noite was detected and
\* its report delivered
C30_Witness ==
    /\ pc = "geral"
    /\ cen.leitura_1h # None
    /\ Val(cen.leitura_1h).rad_glo = Some(1)
    /\ cen.leitura.rad_glo = 0
    /\ res.transicao = Some("boa_noite")
    /\ Entregue("relatorio", "boa_noite")

(***************************************************************************)
(* Properties of the persisted document over cycles                        *)
(***************************************************************************)
\* C36: when a cycle has reached Done, every critical kind whose flag is
\* active in the state file was evaluated active in that cycle; so the two
\* rain flags are never both active in the file, nor the two pressure flags
C36_AtivoPersistidoFoiAvaliado ==
    Done
    => /\ \A k \in Tipos : FlagPersistida(state_file, k) => Ativo(k)
       /\ ~(FlagPersistida(state_file, "chuva_intensa")
            /\ FlagPersistida(state_file, "chuva_acumulada"))
       /\ ~(FlagPersistida(state_file, "queda_brusca")
            /\ FlagPersistida(state_file, "pressao_muito_baixa"))

\* the earlier cycle left chuva_intensa and queda_brusca active in the
\* file; this cycle evaluated chuva_acumulada and pressao_muito_baixa
\* instead, and its file holds those two alone of the four
C36_Witness ==
    /\ Done
    /\ FlagPersistida(arquivo_inicio, "chuva_intensa")
    /\ FlagPersistida(arquivo_inicio, "queda_brusca")
    /\ FlagPersistida(state_file, "chuva_acumulada")
    /\ FlagPersistida(state_file, "pressao_muito_baixa")
    /\ ~FlagPersistida(state_file, "chuva_intensa")
    /\ ~FlagPersistida(state_file, "queda_brusca")

\* C37: in every state file a cycle has written, the state of each of the
\* six domains is entirely null or holds a zone, a value and a time, the zone
\* being the one of the table for that value
C37_ZonaPersistidaClassificaValor ==
    (state_file # None /\ state_file # Corrupto)
    => \A d \in Dominios :
          LET e == Val(state_file).zonas[d]
          IN  \/ e.zona = None /\ e.valor = None /\ e.ultima_mudanca = None
              \/ /\ e.zona # None /\ e.valor # None /\ e.ultima_mudanca # None
                 /\ Val(e.zona) = ZonaDaTabela(d, Val(e.valor))

\* a second cycle has saved: one domain holds a zone and value written by
\* this cycle, another still holds the value the earlier cycle recorded, which
\* is not the value of the current reading
C37_Witness ==
    /\ Done
    /\ arquivo_inicio # None
    /\ \E d \in Dominios :
          /\ Val(state_file).zonas[d] # Val(arquivo_inicio).zonas[d]
          /\ Val(state_file).zonas[d].valor = Some(ValorAtual(cen.leitura, d))
    /\ \E d \in Dominios :
          /\ Val(state_file).zonas[d] = Val(arquivo_inicio).zonas[d]
          /\ Val(state_file).zonas[d].valor # None
          /\ Val(state_file).zonas[d].valor # Some(ValorAtual(cen.leitura, d))

\* C38: in a cycle whose current value of a domain classifies into the
\* persisted zone of that domain, processar_zonas hands no state of the
\* domain to the update and the domain's ZoneState (zone, value, time of the
\* last change) is the one the cycle loaded, in memory and in the saved
\* file; when the zone differs, the event reports the persisted value as the
\* prior value
C38_MesmaZonaNaoAltera ==
    \A d \in Dominios :
        /\ (Avaliado /\ ZonaAntes(d).zona = Some(ZonaAgora(d)))
           => /\ res.estados_atuais[d] = None
              /\ Eventos(d) = {}
              /\ StateManager_get_zone_state(states, d) = ZonaAntes(d)
              /\ Done => Val(state_file).zonas[d] = ZonaAntes(d)
        /\ (Avaliado /\ ZonaAntes(d).zona # None /\ ZonaAntes(d).zona # Some(ZonaAgora(d)))
           => \A i \in Eventos(d) :
                 res.alertas_inteligentes[i].mudanca.valor_anterior = ZonaAntes(d).valor

\* the second cycle read 23.9 degrees while the file held the zone of the
\* 22.0 degrees of the first cycle: the saved file still holds 22.0 and the
\* time of the first cycle, while the wind, which changed zone, was rewritten
C38_Witness ==
    /\ Done
    /\ ciclo = MaxCiclos
    /\ agora > 0
    /\ cen.leitura.tem_ins = 239
    /\ Val(state_file).zonas["temperatura"] =
          [zona |-> Some(ZonaAgora("temperatura")), valor |-> Some(220),
           ultima_mudanca |-> Some(0)]
    /\ \E d \in Dominios :
          /\ ZonaAntes(d).zona # None
          /\ ZonaAntes(d).zona # Some(ZonaAgora(d))
          /\ Eventos(d) # {}

(***************************************************************************)
(* A critical alert whose dispatch failed                                  *)
(***************************************************************************)
\* positions after the loop over tipos_criticos has run
CriticosPercorridos == pc \in {"relatorio", "geral", "salvar", "done"}

\* kind k was evaluated active by the latest earlier cycle, that cycle did
\* not leave the flag agreeing in a saved document, and no alert of the kind
\* was delivered before this cycle since the condition became active
FalhouAntes(k) ==
    /\ chamadas_ant[k] # None
    /\ Val(chamadas_ant[k]).ativo
    /\ ~Val(chamadas_ant[k]).assentado
    /\ (k \in alertado => Entregue("critico", k))

\* C32: a critical alert whose dispatch failed leaves the flag of its kind
\* inactive, in memory and in the file the cycle saves; a following cycle
\* that evaluates the condition active finds the flag inactive and hands
\* the alert to the notifier again, and when that dispatch succeeds the flag
\* becomes active and is saved active
C32_FalhaNaoPerdeAlerta ==
    \A k \in Tipos :
        /\ (CriticosPercorridos /\ Tentado("critico", k) /\ ~Entregue("critico", k))
           => /\ ~StateManager_get_critical_state(states, k)
              /\ states.alertas_criticos[k] = EntradaCritica(arquivo_inicio, k)
              /\ Done => ~FlagPersistida(state_file, k)
        /\ (CriticosPercorridos /\ Ativo(k) /\ FalhouAntes(k))
           => /\ ~FlagPersistida(arquivo_inicio, k)
              /\ Tentado("critico", k)
              /\ Entregue("critico", k)
                 => /\ StateManager_get_critical_state(states, k)
                    /\ Done => FlagPersistida(state_file, k)

\* the first cycle ended saved with the alert of a kind refused by the
\* notifier; the second cycle evaluated the kind active again, delivered the
\* alert and saved the flag active
C32_Witness ==
    /\ Done
    /\ ciclo = MaxCiclos
    /\ arquivo_inicio # None
    /\ \E k \in Tipos :
          /\ Ativo(k) /\ FalhouAntes(k)
          /\ ~FlagPersistida(arquivo_inicio, k)
          /\ Entregue("critico", k)
          /\ FlagPersistida(state_file, k)

(***************************************************************************)
(* The report of a sunrise crossing                                        *)
(***************************************************************************)
\* C33 as stated: at a sunrise crossing whose report the gate allows, the
\* reading one hour earlier is a night reading, so unless the environment
\* fails in the step (the query or the notifier) the report is composed and
\* handed to the notifier and the cycle goes on to the general alert
C33_RelatorioDoAmanhecer ==
    [][ (/\ pc = "relatorio"
         /\ res.transicao = Some("bom_dia")
         /\ RelatorioPermitido
         /\ Rad1h # None /\ Val(Rad1h) <= 0
         /\ falhas' = falhas)
        => /\ pc' = "geral"
           /\ Novos("relatorio", "bom_dia") # {} ]_vars

(***************************************************************************)
(* enviar_whatsapp (main.py) and its sender process (send_whatsapp.py)     *)
(***************************************************************************)
\* the sentinel is not running
SentinelaParada ==
    /\ pc = "idle"
    /\ agora = 0
    /\ state_file = None
    /\ backup_file = None
    /\ states = StateManager_create_default_states(0)
    /\ cen = SemCenario
    /\ res = SemResultado
    /\ enviados = <<>>
    /\ chamadas = SemChamadas
    /\ salvo = FALSE
    /\ exit_code = None
    /\ arquivo_inicio = None
    /\ backup_inicio = None
    /\ alertado = {}
    /\ chamadas_ant = SemChamadas
    /\ relatorios_enviados = {}
    /\ falhas = 0
    /\ ciclo = 0
    /\ db = "fechada"

\* the recipients that WHATSAPP_NUMBERS can name, and how many it names at
\* most (the same number may be named twice)
Destinatarios == {"n1", "n2"}
MaxDestinatarios == 2

\* what urlopen does with one request: it returns a response with a status,
\* raises HTTPError with a status, raises URLError or TimeoutError ("rede"),
\* or raises anything else ("interna")
RespostasHttp ==
    { [tipo |-> "status", http |-> 200], [tipo |-> "status", http |-> 201],
      [tipo |-> "status", http |-> 204],
      [tipo |-> "HTTPError", http |-> 400], [tipo |-> "HTTPError", http |-> 403],
      [tipo |-> "HTTPError", http |-> 500],
      [tipo |-> "rede", http |-> 0], [tipo |-> "interna", http |-> 0] }

\* a sender that takes every response without an exception for a success
send_message_todo_status(resposta) ==
    IF resposta.tipo = "status" THEN 0
    ELSE IF resposta.tipo = "HTTPError"
    THEN IF resposta.http \in {400, 403} THEN 2 ELSE 1
    ELSE 1

\* send_message: the code of the result (0 success, 1 temporary error,
\* 2 permanent error)
send_message(resposta) ==
    IF resposta.tipo = "status"
    THEN IF resposta.http \in {200, 201} THEN 0 ELSE 1
    ELSE IF resposta.tipo = "HTTPError"
    THEN IF resposta.http \in {400, 403} THEN 2 ELSE 1
    ELSE 1

\* results[num] = res: the dict as a set of <<number, code>>, one per number
DictSet(results, num, code) == {p \in results : p[1] # num} \cup {<<num, code>>}

\* a body that counts the message as dispatched when some recipient reports
\* success, whatever the exit code
enviar_whatsapp_corpo_algum(processo) ==
    IF processo.fim = "TimeoutExpired" THEN "TimeoutExpired"
    ELSE IF processo.fim = "Exception" THEN "Exception"
    ELSE IF ~processo.legivel THEN "Exception"
    ELSE IF \E p \in processo.results : p[2] = 0 THEN "True" ELSE "False"

\* the try block of enviar_whatsapp: what it returns or raises for the
\* outcome of subprocess.run; json.loads raises on an unparsable stdout
enviar_whatsapp_corpo(processo) ==
    IF processo.fim = "TimeoutExpired" THEN "TimeoutExpired"
    ELSE IF processo.fim = "Exception" THEN "Exception"
    ELSE IF processo.returncode # 0 THEN "False"
    ELSE IF ~processo.legivel THEN "Exception"
    ELSE IF \A p \in processo.results : p[2] = 0 THEN "True" ELSE "False"

\* enviar_whatsapp: the try block and its two except clauses
enviar_whatsapp(processo) ==
    LET corpo == enviar_whatsapp_corpo(processo)
    IN  IF corpo = "TimeoutExpired" THEN [levanta |-> FALSE, valor |-> FALSE]
        ELSE IF corpo = "Exception" THEN [levanta |-> FALSE, valor |-> FALSE]
        ELSE [levanta |-> FALSE, valor |-> (corpo = "True")]

SemProcesso == [fim |-> "nenhum", returncode |-> 0, legivel |-> FALSE, results |-> {}]

\* one call of enviar_whatsapp: the numbers of the command line and what the
\* API will answer to the request of each position
InitEnvio ==
    /\ SentinelaParada
    /\ outro = OutroParado
    /\ coletor = ColetorParado
    /\ api = ApiParada
    /\ \E n \in 0..MaxDestinatarios :
          \E ns \in [1..n -> Destinatarios], rs \in [1..n -> RespostasHttp] :
             envio = [pc |-> "chamada", numbers |-> ns, respostas |-> rs, i |-> 1,
                      results |-> {}, all_success |-> TRUE,
                      processo |-> SemProcesso, retorno |-> None]

\* subprocess.run raises before the sender runs (the interpreter or the
\* script is missing, an argument is not a string)
ProcessoNaoInicia ==
    /\ envio.pc = "chamada"
    /\ envio' = [envio EXCEPT !.pc = "retornou",
                              !.processo = [SemProcesso EXCEPT !.fim = "Exception"],
                              !.retorno = Some(enviar_whatsapp(
                                             [SemProcesso EXCEPT !.fim = "Exception"]))]
    /\ UNCHANGED << sentinela, outro, coletor, api >>

\* the sender starts: main() of send_whatsapp.py up to its loop
SenderIniciar ==
    /\ envio.pc = "chamada"
    /\ envio' = [envio EXCEPT !.pc = "sender"]
    /\ UNCHANGED << sentinela, outro, coletor, api >>

\* one iteration of the loop over the numbers
SenderEnviar ==
    /\ envio.pc = "sender"
    /\ envio.i <= Len(envio.numbers)
    /\ LET code == send_message(envio.respostas[envio.i])
       IN  envio' = [envio EXCEPT
                        !.results = DictSet(envio.results, envio.numbers[envio.i], code),
                        !.all_success = IF code # 0 THEN FALSE ELSE envio.all_success,
                        !.i = envio.i + 1]
    /\ UNCHANGED << sentinela, outro, coletor, api >>

\* the sender prints the results and exits; the parent reads the output,
\* which the environment may have made unreadable, and returns
SenderSair ==
    /\ envio.pc = "sender"
    /\ envio.i > Len(envio.numbers)
    /\ \E legivel \in BOOLEAN :
          LET processo == [fim |-> "saiu",
                           returncode |-> IF envio.all_success THEN 0 ELSE 1,
                           legivel |-> legivel, results |-> envio.results]
          IN  envio' = [envio EXCEPT !.pc = "retornou", !.processo = processo,
                                     !.retorno = Some(enviar_whatsapp(processo))]
    /\ UNCHANGED << sentinela, outro, coletor, api >>

\* the 30 seconds of subprocess.run end while the sender still runs
ProcessoTimeout ==
    /\ envio.pc = "sender"
    /\ envio' = [envio EXCEPT !.pc = "retornou",
                              !.processo = [SemProcesso EXCEPT !.fim = "TimeoutExpired"],
                              !.retorno = Some(enviar_whatsapp(
                                             [SemProcesso EXCEPT !.fim = "TimeoutExpired"]))]
    /\ UNCHANGED << sentinela, outro, coletor, api >>

NextEnvio ==
    \/ ProcessoNaoInicia
    \/ SenderIniciar
    \/ SenderEnviar
    \/ SenderSair
    \/ ProcessoTimeout

SpecEnvio == InitEnvio /\ [][NextEnvio]_vars

\* the API answered the request of position i with a success
EntregueA(i) ==
    envio.respostas[i].tipo = "status" /\ envio.respostas[i].http \in {200, 201}

\* C34: a call of enviar_whatsapp that has ended returned a boolean and did
\* not raise; it returned True only when the sender exited with code 0 and
\* the API answered every recipient's request with a success; after a
\* timeout, an unreadable output, a process that did not start, or a failure
\* of any one recipient it returned False
C34_DespachoDeTodos ==
    envio.pc = "retornou"
    => /\ envio.retorno # None
       /\ ~Val(envio.retorno).levanta
       /\ Val(envio.retorno).valor \in BOOLEAN
       /\ Val(envio.retorno).valor
          => /\ envio.processo.fim = "saiu"
             /\ envio.processo.returncode = 0
             /\ envio.processo.legivel
             /\ \A i \in 1..Len(envio.numbers) : EntregueA(i)
       /\ (\/ envio.processo.fim # "saiu"
           \/ ~envio.processo.legivel
           \/ envio.processo.returncode # 0
           \/ \E i \in 1..Len(envio.numbers) : ~EntregueA(i))
          => ~Val(envio.retorno).valor

\* two recipients, the first delivered and the second refused for good: the
\* sender exited 1 with a readable output and the call returned False
C34_Witness ==
    /\ envio.pc = "retornou"
    /\ Len(envio.numbers) = MaxDestinatarios
    /\ envio.numbers[1] # envio.numbers[2]
    /\ EntregueA(1)
    /\ envio.respostas[2] = [tipo |-> "HTTPError", http |-> 403]
    /\ envio.processo.fim = "saiu" /\ envio.processo.legivel
    /\ envio.processo.returncode = 1
    /\ envio.processo.results = {<<envio.numbers[1], 0>>, <<envio.numbers[2], 2>>}
    /\ envio.retorno = Some([levanta |-> FALSE, valor |-> FALSE])

(***************************************************************************)
(* Two invocations of main() that overlap.  main() takes no lock:          *)
(* Config.LOCK_FILE and Config.MAX_LOCK_AGE are defined and never read.    *)
(* The second invocation shares the database rows, the notifier and the    *)
(* state file with the first; between its load and its save it touches     *)
(* nothing the first one reads, so its body is one step.                   *)
(***************************************************************************)
\* main.py 256-314 for the readings c and the loaded document st, with a
\* notifier that accepts every message: the transition, the document and
\* the messages handed to the notifier
CorpoAlertas(st1, r, t) ==
    [transicao |-> r.transicao,
     fim |-> LoopCriticos(1, [states |-> st1,
                              enviados |-> LoopInteligentes(1, r.alertas_inteligentes, {}, <<>>),
                              chamadas |-> SemChamadas],
                          CriticosAtivos(r.alertas_criticos), {}, t)]

CorpoZonas(c, st, r, t) == CorpoAlertas(AtualizarEstados(st, r.estados_atuais, 1, t), r, t)

\* main.py 316-336: the report, for the summary kind its query returns
CorpoRelatorio(c, transicao, crit, rad_1h, resumo, t) ==
    IF \/ transicao = None
       \/ ~StateManager_should_send_report(crit.states, Val(transicao),
                                           c.leitura.rad_glo, rad_1h, t)
       \/ resumo = "nenhum"
    THEN [falhou |-> FALSE, states |-> crit.states, enviados |-> crit.enviados]
    ELSE IF MessageComposer_compor_relatorio(Val(transicao), resumo) = "TypeError"
    THEN [falhou |-> TRUE, states |-> crit.states, enviados |-> crit.enviados]
    ELSE [falhou |-> FALSE,
          states |-> StateManager_update_report(crit.states, Val(transicao), t),
          enviados |-> Append(crit.enviados,
                              [classe |-> "relatorio", nome |-> Val(transicao), ok |-> TRUE])]

\* main.py 338-362: the general alert
CorpoGeral(c, rel, decisao, t) ==
    IF rel.falhou \/ ~decisao[1] THEN rel
    ELSE IF c.leitura_3h # None /\ Val(c.leitura_3h).umd_ins = None
    THEN [rel EXCEPT !.falhou = TRUE]
    ELSE [falhou |-> FALSE,
          states |-> StateManager_update_general_alert(
                         rel.states, c.leitura.tem_ins, c.leitura.umd_ins,
                         c.leitura.pre_ins, t),
          enviados |-> Append(rel.enviados,
                              [classe |-> "geral", nome |-> decisao[2], ok |-> TRUE])]

CorpoAteRelatorio(c, zonas, resumo, t) ==
    CorpoRelatorio(c, zonas.transicao, zonas.fim,
                   IF c.leitura_1h # None THEN Val(c.leitura_1h).rad_glo ELSE None,
                   resumo, t)

CorpoDesdeGeral(c, rel, t) ==
    CorpoGeral(c, rel,
               StateManager_should_send_general_alert(
                   rel.states, c.leitura.tem_ins, c.leitura.umd_ins, c.leitura.pre_ins, t),
               t)

\* main.py 256-362: the document to save, the messages handed to the
\* notifier and whether an exception ended the invocation
CorpoDeMain(c, st, resumo, t) ==
    CorpoDesdeGeral(c,
        CorpoAteRelatorio(c,
            CorpoZonas(c, st, processar_zonas(c.leitura, c.leitura_1h, c.acumulado_24h, st), t),
            resumo, t),
        t)

\* the summary kinds the report query of the readings c can return
ResumosDe(c) ==
    LET transicao == ZonaRadiacao_detectar_transicao(
                        c.leitura.rad_glo,
                        IF c.leitura_1h # None THEN Val(c.leitura_1h).rad_glo ELSE None)
    IN  IF transicao = None THEN {"nenhum"} ELSE Resumos(Val(transicao))

\* the second invocation connects, reads the rows the first one read and
\* loads the state file
OutroIniciar ==
    /\ outro.pc = "parado"
    /\ pc \notin {"idle", "failed"}
    /\ outro' = [pc |-> "carregado", states |-> StateManager_load(state_file, agora),
                 enviados |-> <<>>, arquivo |-> state_file, exit_code |-> None]
    /\ UNCHANGED << sentinela, envio, coletor, api >>

\* it evaluates the zones, dispatches and, unless an exception ends it,
\* arrives at its save
OutroExecutar ==
    /\ outro.pc = "carregado"
    /\ \E resumo \in ResumosDe(cen) :
          LET fim == CorpoDeMain(cen, outro.states, resumo, agora)
          IN  outro' = [outro EXCEPT !.pc = IF fim.falhou THEN "failed" ELSE "salvar",
                                     !.states = fim.states,
                                     !.enviados = fim.enviados,
                                     !.exit_code = IF fim.falhou THEN Some(1) ELSE None]
    /\ UNCHANGED << sentinela, envio, coletor, api >>

\* its save() copies the file it finds to the backup and writes its document
OutroSalvar ==
    /\ outro.pc = "salvar"
    /\ backup_file' = StateManager_save_backup(state_file, backup_file)
    /\ state_file' = Some([outro.states EXCEPT !.timestamp = agora])
    /\ outro' = [outro EXCEPT !.pc = "done", !.exit_code = Some(0)]
    /\ UNCHANGED << pc, agora, states, cen, res, enviados, chamadas, salvo, exit_code,
                    arquivo_inicio, backup_inicio, alertado, chamadas_ant,
                    relatorios_enviados, falhas, ciclo, db, envio, coletor, api >>

NextSobreposto ==
    \/ Iniciar /\ UNCHANGED externos
    \/ IniciarVento /\ UNCHANGED externos
    \/ Avaliar /\ UNCHANGED externos
    \/ EnviarInteligentes /\ UNCHANGED externos
    \/ EnviarCriticos /\ UNCHANGED externos
    \/ RelatorioSemEnvio /\ UNCHANGED externos
    \/ RelatorioExcecao /\ UNCHANGED externos
    \/ RelatorioEnviar /\ UNCHANGED externos
    \/ GeralSemEnvio /\ UNCHANGED externos
    \/ GeralExcecao /\ UNCHANGED externos
    \/ GeralEnviar /\ UNCHANGED externos
    \/ Salvar /\ UNCHANGED externos
    \/ SalvarFalha /\ UNCHANGED externos
    \/ OutroIniciar
    \/ OutroExecutar
    \/ OutroSalvar

\* one invocation at hour 0 and a second one that starts after it
SpecSobreposto == InitZonas /\ [][NextSobreposto]_vars

\* an invocation is between loading and saving the state document
EntreCargaESalva(p) == p \in {"avaliar", "inteligentes", "criticos", "relatorio", "geral",
                              "salvar", "carregado"}

\* the messages of the zone changes and critical onsets a log delivered
AlertasEntregues(log) ==
    {<<log[i].classe, log[i].nome>> : i \in {j \in 1..Len(log) :
        log[j].ok /\ log[j].classe \in {"zona", "critico"}}}

\* C31 as stated: at most one invocation at a time is between loading and
\* saving the state document, no alert of a zone change or critical onset
\* is delivered by both invocations, and once both have saved the file
\* holds the critical flag that either of them set
C31_InvocacoesExcluidas ==
    /\ ~(EntreCargaESalva(pc) /\ EntreCargaESalva(outro.pc))
    /\ outro.pc # "parado"
       => /\ AlertasEntregues(enviados) \cap AlertasEntregues(outro.enviados) = {}
          /\ (Done /\ outro.pc = "done")
             => \A k \in Tipos :
                   (\/ StateManager_get_critical_state(states, k)
                    \/ StateManager_get_critical_state(outro.states, k))
                   => FlagPersistida(state_file, k)

(***************************************************************************)
(* sincro_db/run_collector.py: the collector.  A measurement is its key    *)
(* <<day, hour>> (dt_medicao, hr_medicao of the one station); the SQLite   *)
(* and MySQL tables are the sets of the keys they hold.  The API answers a *)
(* run with the measurement of the current instant, so rows are inserted   *)
(* in the order of their keys.                                             *)
(***************************************************************************)
\* cleanup_old_data(days=90), run when datetime.now().hour == 3
DiasRetencao == 90
HoraLimpeza == 3

\* the hours of a day at which cron starts a run, the runs and the clock
\* steps of one behaviour
HorasDeExecucao == {HoraLimpeza, 12}
MaxExecucoes == 5
MaxRelogio == 3

\* the key a comes before the key b
Antes(a, b) == a[1] < b[1] \/ (a[1] = b[1] /\ a[2] < b[2])

\* SQLiteManager.insert: is_duplicate finds the row of the same key with the
\* same values, otherwise INSERT OR IGNORE under UNIQUE(cd_estacao,
\* dt_medicao, hr_medicao)
SQLiteManager_insert(sqlite, chave) == sqlite \cup {chave}

\* DELETE FROM medicoes WHERE dt_medicao < today - days
SQLiteManager_cleanup_old_data(sqlite, hoje) ==
    {m \in sqlite : ~(m[1] < hoje - DiasRetencao)}

\* the rows sync_from_sqlite reads: all of them, or the one of the highest id
LinhasASincronizar(sqlite, full) ==
    IF full THEN sqlite
    ELSE {m \in sqlite : \A n \in sqlite : n = m \/ Antes(n, m)}

\* a synchronisation that always reads every row of SQLite
MySQLManager_sync_from_sqlite_completa(mysql, sqlite, full) == mysql \cup sqlite

\* sync_from_sqlite: every row read whose key MySQL does not hold is inserted
MySQLManager_sync_from_sqlite(mysql, sqlite, full) ==
    mysql \cup LinhasASincronizar(sqlite, full)

\* a fresh installation at noon of day 0
InitColetor ==
    /\ SentinelaParada
    /\ envio = EnvioParado
    /\ outro = OutroParado
    /\ api = ApiParada
    /\ coletor = [pc |-> "ocioso", dia |-> 0, hora |-> 12, sqlite |-> {}, mysql |-> {},
                  execucoes |-> 0, relogio |-> 0, sincronizou |-> FALSE]

\* time passes to a later hour of a run, the same day, the next day or the
\* day after the retention period
ColetorRelogio ==
    /\ coletor.relogio < MaxRelogio
    /\ \E d \in {coletor.dia, coletor.dia + 1, coletor.dia + DiasRetencao},
          h \in HorasDeExecucao :
          /\ Antes(<<coletor.dia, coletor.hora>>, <<d, h>>)
          /\ coletor' = [coletor EXCEPT !.dia = d, !.hora = h,
                                        !.relogio = coletor.relogio + 1]
    /\ UNCHANGED << sentinela, envio, outro, api >>

\* Orchestrator.run when collector.fetch() returns None: sys.exit(1) before
\* the insert, the cleanup and the synchronisation
RunSemDados ==
    /\ coletor.execucoes < MaxExecucoes
    /\ coletor' = [coletor EXCEPT !.execucoes = coletor.execucoes + 1,
                                  !.sincronizou = FALSE]
    /\ UNCHANGED << sentinela, envio, outro, api >>

\* the SQLite table after steps 3 and 4 of run
SQLiteAposExecucao ==
    LET inserido == SQLiteManager_insert(coletor.sqlite, <<coletor.dia, coletor.hora>>)
    IN  IF coletor.hora = HoraLimpeza
        THEN SQLiteManager_cleanup_old_data(inserido, coletor.dia)
        ELSE inserido

\* sqlite_count, taken after the insert and before the cleanup
SqliteCount ==
    Cardinality(SQLiteManager_insert(coletor.sqlite, <<coletor.dia, coletor.hora>>))

\* Orchestrator.run when mysql.connect() fails: the row is stored, the
\* cleanup has run, nothing is synchronised
RunMySQLFora ==
    /\ coletor.execucoes < MaxExecucoes
    /\ coletor' = [coletor EXCEPT !.execucoes = coletor.execucoes + 1,
                                  !.sqlite = SQLiteAposExecucao,
                                  !.sincronizou = FALSE]
    /\ UNCHANGED << sentinela, envio, outro, api >>

\* Orchestrator.run with MySQL reachable: the complete synchronisation when
\* SQLite counted more rows than MySQL, the last row otherwise
RunSincroniza ==
    /\ coletor.execucoes < MaxExecucoes
    /\ LET diff == SqliteCount - Cardinality(coletor.mysql)
       IN  coletor' = [coletor EXCEPT
                          !.execucoes = coletor.execucoes + 1,
                          !.sqlite = SQLiteAposExecucao,
                          !.mysql = MySQLManager_sync_from_sqlite(
                                        coletor.mysql, SQLiteAposExecucao, diff > 0),
                          !.sincronizou = TRUE]
    /\ UNCHANGED << sentinela, envio, outro, api >>

NextColetor ==
    \/ ColetorRelogio
    \/ RunSemDados
    \/ RunMySQLFora
    \/ RunSincroniza

SpecColetor == InitColetor /\ [][NextColetor]_vars

\* C35 as stated: after a run in which MySQL was reachable, every
\* measurement stored in SQLite is in MySQL
C35_RecuperaDadosPerdidos ==
    (coletor.pc = "ocioso" /\ coletor.sincronizou) => coletor.sqlite \subseteq coletor.mysql

(***************************************************************************)
(* api/api_clima.py: fetch_latest_data_logic and its cache.  The table is  *)
(* the set of the ids of its rows and a row is its id; rows are inserted   *)
(* with increasing ids, never changed and never deleted.  A coroutine runs *)
(* without interruption between two awaits: the database executes each     *)
(* query at one instant and the coroutine resumes at a later one.          *)
(***************************************************************************)
\* the concurrent requests and the highest id of a behaviour
Pedidos == {1, 2}
MaxId == 3

\* MAX(id), with 0 for the NULL of an empty table
MaxDe(tabela) == IF tabela = {} THEN 0 ELSE CHOOSE i \in tabela : \A j \in tabela : j <= i

\* SELECT MAX(id), COUNT(*) FROM medicoes
Metadata(tabela) == << MaxDe(tabela), Cardinality(tabela) >>

\* SELECT * FROM medicoes ORDER BY id DESC LIMIT 1
UltimaLinha(tabela) == IF tabela = {} THEN None ELSE Some(MaxDe(tabela))

\* a test that serves whatever row the cache holds
CacheValido_sem_chave(cache, metadata) == cache.data # None

\* WeatherCache.version_key == metadata and WeatherCache.data
CacheValido(cache, metadata) ==
    cache.version_key = Some(metadata) /\ cache.data # None

PedidoLivre ==
    [pc |-> "livre", metadata |-> <<0, 0>>, row |-> None, resposta |-> None,
     acerto |-> FALSE, chave_vista |-> None]

\* the service has started: the table holds what the collector wrote so far
InitApi ==
    /\ SentinelaParada
    /\ envio = EnvioParado
    /\ outro = OutroParado
    /\ coletor = ColetorParado
    /\ \E n \in 0..1 :
          api = [pc |-> "ativa", tabela |-> 1..n,
                 cache |-> [data |-> None, version_key |-> None],
                 pedidos |-> [r \in Pedidos |-> PedidoLivre]]

\* the collector inserts a row; auto-increment may skip an id
Inserir ==
    /\ api.pc = "ativa"
    /\ \E i \in {MaxDe(api.tabela) + 1, MaxDe(api.tabela) + 2} :
          /\ i <= MaxId
          /\ api' = [api EXCEPT !.tabela = api.tabela \cup {i}]
    /\ UNCHANGED << sentinela, envio, outro, coletor >>

\* a request arrives and the database executes its first query
PedidoLerMeta(r) ==
    /\ api.pc = "ativa"
    /\ api.pedidos[r].pc = "livre"
    /\ api' = [api EXCEPT !.pedidos[r] =
                  [PedidoLivre EXCEPT !.pc = "meta", !.metadata = Metadata(api.tabela)]]
    /\ UNCHANGED << sentinela, envio, outro, coletor >>

\* the coroutine resumes with metadata: it returns the cached row, or goes
\* on to the second query
PedidoComparar(r) ==
    /\ api.pc = "ativa"
    /\ api.pedidos[r].pc = "meta"
    /\ api' = IF CacheValido(api.cache, api.pedidos[r].metadata)
              THEN [api EXCEPT !.pedidos[r].pc = "fim",
                               !.pedidos[r].resposta = api.cache.data,
                               !.pedidos[r].acerto = TRUE,
                               !.pedidos[r].chave_vista = api.cache.version_key]
              ELSE [api EXCEPT !.pedidos[r].pc = "consulta"]
    /\ UNCHANGED << sentinela, envio, outro, coletor >>

\* the database executes the second query
PedidoLerLinha(r) ==
    /\ api.pc = "ativa"
    /\ api.pedidos[r].pc = "consulta"
    /\ api' = [api EXCEPT !.pedidos[r].pc = "linha",
                          !.pedidos[r].row = UltimaLinha(api.tabela)]
    /\ UNCHANGED << sentinela, envio, outro, coletor >>

\* the coroutine resumes with the row: HTTPException(404) when there is
\* none, otherwise it fills the cache and returns the row
PedidoResponder(r) ==
    /\ api.pc = "ativa"
    /\ api.pedidos[r].pc = "linha"
    /\ api' = IF api.pedidos[r].row = None
              THEN [api EXCEPT !.pedidos[r].pc = "fim",
                               !.pedidos[r].resposta = Some(404)]
              ELSE [api EXCEPT !.pedidos[r].pc = "fim",
                               !.pedidos[r].resposta = api.pedidos[r].row,
                               !.cache = [data |-> api.pedidos[r].row,
                                          version_key |-> Some(api.pedidos[r].metadata)]]
    /\ UNCHANGED << sentinela, envio, outro, coletor >>

\* the response was sent; the worker takes the next request
PedidoConcluir(r) ==
    /\ api.pc = "ativa"
    /\ api.pedidos[r].pc = "fim"
    /\ api' = [api EXCEPT !.pedidos[r] = PedidoLivre]
    /\ UNCHANGED << sentinela, envio, outro, coletor >>

NextApi ==
    \/ Inserir
    \/ \E r \in Pedidos : PedidoLerMeta(r)
    \/ \E r \in Pedidos : PedidoComparar(r)
    \/ \E r \in Pedidos : PedidoLerLinha(r)
    \/ \E r \in Pedidos : PedidoResponder(r)
    \/ \E r \in Pedidos : PedidoConcluir(r)

SpecApi == InitApi /\ [][NextApi]_vars

\* C39: a request that was answered from the cache had read a pair equal to
\* the version key the cache held when it compared, and the row of every
\* response is not older than the row that was the latest when the request
\* read the pair; a request answers 404 only when it found the table empty
C39_RespostaNaoMaisAntiga ==
    api.pc = "ativa"
    => \A r \in Pedidos :
          LET p == api.pedidos[r]
          IN  p.pc = "fim"
              => /\ p.acerto => p.chave_vista = Some(p.metadata)
                 /\ p.resposta # None
                 /\ Val(p.resposta) = 404 => p.metadata = <<0, 0>>
                 /\ Val(p.resposta) # 404
                    => /\ Val(p.resposta) \in api.tabela
                       /\ Val(p.resposta) >= p.metadata[1]

\* a request was answered from the cache with a row newer than the pair it
\* had read: another request that read the same pair fetched the row after
\* an insertion and filled the cache under that pair
C39_Witness ==
    /\ api.pc = "ativa"
    /\ \E r \in Pedidos :
          /\ api.pedidos[r].pc = "fim"
          /\ api.pedidos[r].acerto
          /\ api.pedidos[r].resposta # Some(404)
          /\ Val(api.pedidos[r].resposta) > api.pedidos[r].metadata[1]
          /\ api.pedidos[r].metadata[1] > 0

====
